---- MODULE Spec2Model ----
(***************************************************************************)
(* The embedded in-memory key-value store of ukv_stl_embedded.cpp: named   *)
(* collections of sequenced values, HEAD reads and writes, and optimistic  *)
(* transactions (begin / buffered write / read / commit).                  *)
(*                                                                         *)
(* Every C entry point takes db.mutex for its whole body (shared for       *)
(* reads and buffered writes, unique for HEAD writes, commits and          *)
(* collection changes), so each entry point is one atomic action.          *)
(* ukv_txn_begin takes no lock, but its only access to shared state is one *)
(* atomic increment of youngest_sequence, so it is one atomic action too.  *)
(* A call leaves its outputs in ret; the caller takes them (Return) before *)
(* the next call is made.                                                  *)
(***************************************************************************)
EXTENDS Integers, Sequences, FiniteSets, TLC

\* ------------------------------------------------------------------ bounds
MaxSeq == 2     \* youngest_sequence is not incremented beyond this value
MaxBatch == 2   \* rows (keys) of one batch call on HEAD
MaxMade == 2    \* collections created under one name

\* ---------------------------------------------------------------- universe
Unnamed == "unnamed"            \* identity of db.unnamed
NullHandle == "null"            \* a NULL ukv_collection_t
Names == {"col"}                \* names passed to ukv_collection_upsert
Unknown == "unknown_col"        \* a name that is never passed to ukv_collection_upsert
AllNames == Names \cup {Unknown}
Keys == {34, 35}
Values == {<<>>, <<1>>, <<2, 3>>}
NullValue == <<-1>>             \* the row of a deletion: c_values[i] = NULL, c_lengths[i] = 0
Txns == {1, 2}                  \* transaction handles of the callers
SeqHints == {0, MaxSeq + 1}     \* c_sequence_number: 0 asks for a fresh one
NoErr == "ok"                   \* *c_error left untouched
PathNames == {<<104, 97>>, <<104, 98>>, <<108>>}     \* the paths "ha", "hb", "l"
Strings == PathNames \cup {<<>>}                     \* and the empty string
Located == (Names \cup {Unnamed}) \X Keys      \* located_key_t

VARIABLES
    named,              \* db.named: the names of the collections that exist
    made,               \* history: name -> how many collections it was given, and whether
                        \*   the latest call that named it was an upsert that succeeded
    pairs,              \* located key -> sequenced_value_t (found = FALSE: pairs.find gives end())
    youngest_sequence,  \* db.youngest_sequence
    txns,               \* handle -> txn_t (live = FALSE: a NULL handle)
    ret,                \* the last call and its outputs: error and exported values
    last_put,           \* history: located key -> the value its latest successful put was given
    drawn,              \* history: the greatest sequence number taken from youngest_sequence
    hist,               \* history: per handle and located key, what happened since the begin
    hash,               \* hash_t of the paths modality: string -> ukv_key_t
    path_put,           \* history: path -> the value its latest paths write was given
    mutex,              \* db.mutex: the thread that holds it exclusively (0: none) and
                        \*   the threads that hold it shared
    pc                  \* thread -> the call it is in, between taking db.mutex and its
                        \*   return, or the place it has reached in its program

vars == <<named, made, pairs, youngest_sequence, txns, ret, last_put, drawn, hist, hash, path_put, mutex, pc>>

\* ----------------------------------------------------------------- helpers
Handles == {NullHandle} \cup named
SeqsUpTo(S, n) == UNION {[1..m -> S] : m \in 0..n}
RowsOf(keys, values) == [collection : Handles, key : keys, value : values]
TasksOf(keys) == [collection : Handles, key : keys]

NotFound == [found |-> FALSE, data |-> <<>>, sequence_number |-> 0]
NotBuffered == [buffered |-> FALSE, value |-> <<>>]
NotRequested == [requested |-> FALSE, sequence |-> 0]
NullTxn == [live |-> FALSE, sequence_number |-> 0,
            requested_keys |-> [l \in Located |-> NotRequested],
            new_values |-> [l \in Located |-> NotBuffered]]
\* at: the located keys of the rows of the call; out: one exported cell per row
Idle == [op |-> "idle", txn |-> 0, err |-> NoErr, at |-> <<>>, out |-> <<>>]
Result(op, t, err, at, out) == [op |-> op, txn |-> t, err |-> err, at |-> at, out |-> out]

\* entry_was_overwritten
entry_was_overwritten(entry_sequence, transaction_sequence, youngest) ==
    IF transaction_sequence <= youngest
    THEN (entry_sequence >= transaction_sequence) /\ (entry_sequence <= youngest)
    ELSE (entry_sequence >= transaction_sequence) \/ (entry_sequence <= youngest)

\* collection_at: a NULL handle is db.unnamed; colocated_k takes the first handle for all rows
collection_at(rows, i, colocated) ==
    LET h == rows[IF colocated THEN 1 ELSE i].collection
    IN IF h = NullHandle THEN Unnamed ELSE h

LocatedAt(rows, i, colocated) == <<collection_at(rows, i, colocated), rows[i].key>>
LocatedOf(rows, colocated) == [i \in 1..Len(rows) |-> LocatedAt(rows, i, colocated)]

\* ---------------------------------------------------------------- history
\* The history variables record what the callers did; no action reads them.
\*   drawn: the greatest of the sequence numbers that ++youngest_sequence has returned;
\*   last_put[l]: how many puts to l succeeded, the value the latest one was given,
\*     and whether it was the row of a deletion;
\*   hist[t][l].newer: who put l last since t began, other than t ("head" or "txn");
\*   hist[t][l].first: the cell of the first read of t that took l from the main store;
\*   hist[t][l].tracked: "tracked" once t read l from the main store with
\*     ukv_option_read_consistent, "stale" once a HEAD write put l after that.
NotMade == [times |-> 0, live |-> FALSE]
Unlocked == [unique |-> 0, shared |-> {}]
Outside == [op |-> "none", youngest_sequence_number |-> 0]
NoPut == [puts |-> 0, value |-> <<>>, erased |-> FALSE]
NoRead == [read |-> FALSE, cell |-> <<>>]
NoHist == [l \in Located |-> [newer |-> "none", first |-> NoRead, tracked |-> "no"]]

\* writer (0: HEAD) has put the located keys locs.
HistPut(writer, locs) ==
    [t \in Txns |->
        IF t = writer \/ ~txns[t].live THEN hist[t]
        ELSE [l \in Located |->
                IF l \notin locs THEN hist[t][l]
                ELSE [hist[t][l] EXCEPT
                        !.newer = IF writer = 0 THEN "head" ELSE "txn",
                        !.tracked = IF writer = 0 /\ @ = "tracked" THEN "stale" ELSE @]]]

\* t has read the rows at (a sequence of located keys) with the cells out.
HistRead(t, at, out, consistent) ==
    [hist EXCEPT ![t] =
        [l \in Located |->
            IF \E i \in 1..Len(at) : at[i] = l /\ ~txns[t].new_values[l].buffered
            THEN LET i == CHOOSE i \in 1..Len(at) : at[i] = l IN
                 [hist[t][l] EXCEPT
                    !.first = IF @.read THEN @ ELSE [read |-> TRUE, cell |-> out[i]],
                    !.tracked = IF consistent /\ @ = "no" THEN "tracked" ELSE @]
            ELSE hist[t][l]]]

\* ------------------------------------------------------------------- Init
Init ==
    /\ named = {}
    /\ made = [name \in AllNames |-> NotMade]
    /\ pairs = [l \in Located |-> NotFound]
    /\ youngest_sequence = 0
    /\ txns = [t \in Txns |-> NullTxn]
    /\ ret = Idle
    /\ last_put = [l \in Located |-> NoPut]
    /\ drawn = 0
    /\ hist = [t \in Txns |-> NoHist]
    /\ hash = [str \in Strings |-> 0]
    /\ path_put = [str \in PathNames |-> NoPut]
    /\ mutex = Unlocked
    /\ pc = [th \in Txns |-> Outside]

\* --------------------------------------------------------- _ukv_write_head
\* The range [begin, begin + length) of a row. For the row of a deletion begin is
\* NULL and the length is 0: the range is empty, as it is for an empty value.
Bytes(value) == IF value = NullValue THEN <<>> ELSE value

\* A row that appends the bytes to the value of an existing key.
head_put_append(st, loc, value, failing) ==
    LET next == st.youngest + 1
        old == st.pairs[loc]
        data == Bytes(value)
        given == [puts |-> st.given[loc].puts + 1, value |-> data, erased |-> value = NullValue]
    IN
    IF failing THEN [st EXCEPT !.err = "Failed to put!"]
    ELSE [st EXCEPT !.pairs[loc] = [found |-> TRUE, data |-> old.data \o data,
                                    sequence_number |-> next],
                    !.youngest = next, !.drawn = next, !.put = @ \cup {loc},
                    !.given[loc] = given]

\* One row of the loop of _ukv_write_head on the running state st. failing: the
\* allocator throws on the allocations of this row. st.put, st.given and
\* st.drawn record the rows that were put and the numbers taken, for the history.
\*   existing key: the sequence number is taken first, then data.assign, which
\*     allocates only when the new value is longer than the old one;
\*   new key: the value is built first (allocates when it is not empty), then the
\*     sequence number is taken, then insert_or_assign allocates the node.
head_put(st, loc, value, failing) ==
    LET next == st.youngest + 1
        old == st.pairs[loc]
        data == Bytes(value)
        given == [puts |-> st.given[loc].puts + 1, value |-> data, erased |-> value = NullValue]
    IN
    IF old.found
    THEN IF failing /\ Len(data) > Len(old.data)
         THEN [st EXCEPT !.pairs[loc].sequence_number = next, !.youngest = next, !.drawn = next,
                         !.err = "Failed to put!"]
         ELSE [st EXCEPT !.pairs[loc] = [found |-> TRUE, data |-> data, sequence_number |-> next],
                         !.youngest = next, !.drawn = next, !.put = @ \cup {loc},
                         !.given[loc] = given]
    ELSE IF failing /\ Len(data) > 0
         THEN [st EXCEPT !.err = "Failed to put!"]
         ELSE IF failing
              THEN [st EXCEPT !.youngest = next, !.drawn = next, !.err = "Failed to put!"]
              ELSE [st EXCEPT !.pairs[loc] = [found |-> TRUE, data |-> data, sequence_number |-> next],
                              !.youngest = next, !.drawn = next, !.put = @ \cup {loc},
                              !.given[loc] = given]

\* The loop of _ukv_write_head; it breaks at the first row that throws, so the
\* row that throws (if any) is the last one passed.
RECURSIVE write_head_loop(_, _, _, _, _)
write_head_loop(st, rows, i, colocated, fail) ==
    IF i > Len(rows) \/ st.err # NoErr
    THEN st
    ELSE write_head_loop(
            head_put(st, LocatedAt(rows, i, colocated), rows[i].value, fail /\ i = Len(rows)),
            rows, i + 1, colocated, fail)

write_head(rows, colocated, fail) ==
    write_head_loop([pairs |-> pairs, youngest |-> youngest_sequence, err |-> NoErr,
                     put |-> {}, given |-> last_put, drawn |-> drawn],
                    rows, 1, colocated, fail)

_ukv_write_head(rows, colocated, fail) ==
    LET st == write_head(rows, colocated, fail) IN
    /\ youngest_sequence + Len(rows) <= MaxSeq
    /\ fail => st.err # NoErr
    /\ pairs' = st.pairs
    /\ youngest_sequence' = st.youngest
    /\ ret' = Result("write_head", 0, st.err, LocatedOf(rows, colocated), <<>>)
    /\ last_put' = st.given
    /\ drawn' = st.drawn
    /\ hist' = HistPut(0, st.put)
    /\ UNCHANGED <<named, made, txns>>

\* ------------------------------------------------------- _ukv_measure_head
\* ukv_read with c_values = NULL: only c_lengths is filled, with data.size() of a
\* key that is found and with 0 of a key that is not. Nothing else is returned.
measure_head(p, tasks, colocated) ==
    [i \in 1..Len(tasks) |->
        [length |-> IF p[LocatedAt(tasks, i, colocated)].found
                    THEN Len(p[LocatedAt(tasks, i, colocated)].data) ELSE 0]]

_ukv_measure_head(tasks, colocated) ==
    /\ ret' = Result("measure_head", 0, NoErr, LocatedOf(tasks, colocated),
                     measure_head(pairs, tasks, colocated))
    /\ UNCHANGED <<named, made, pairs, youngest_sequence, txns, last_put, drawn, hist>>

\* ---------------------------------------------------------- _ukv_read_head
\* Caller's arena: a NULL one of length 0, or one that is large enough.
Arenas == {[null |-> TRUE, length |-> 0], [null |-> FALSE, length |-> 2 * (MaxBatch + 1)]}

\* Step 1 of _ukv_read_head: the total size of the found values.
RECURSIVE read_head_total(_, _, _, _)
read_head_total(p, tasks, i, colocated) ==
    IF i > Len(tasks) THEN 0
    ELSE (IF p[LocatedAt(tasks, i, colocated)].found
          THEN Len(p[LocatedAt(tasks, i, colocated)].data) ELSE 0)
         + read_head_total(p, tasks, i + 1, colocated)

\* Step 3 of _ukv_read_head: memcpy every found value to arena + exported_into_arena.
\* ex: the tape, and one cell per task: the returned pointer (NULL, or an offset in
\* the tape) and length; ex.null: the arena itself is NULL.
RECURSIVE read_head_export(_, _, _, _, _)
read_head_export(p, tasks, i, colocated, ex) ==
    IF i > Len(tasks) THEN ex
    ELSE LET e == p[LocatedAt(tasks, i, colocated)] IN
         IF e.found
         THEN read_head_export(p, tasks, i + 1, colocated,
                  [ex EXCEPT !.tape = @ \o e.data,
                             !.cells = Append(@, [null |-> ex.null, offset |-> Len(ex.tape),
                                                  length |-> Len(e.data)])])
         ELSE read_head_export(p, tasks, i + 1, colocated,
                  [ex EXCEPT !.cells = Append(@, [null |-> TRUE, offset |-> 0, length |-> 0])])

\* What the caller sees in row i: the bytes the returned pointer and length denote.
View(ex) ==
    [i \in 1..Len(ex.cells) |->
        [null |-> ex.cells[i].null,
         length |-> ex.cells[i].length,
         bytes |-> SubSeq(ex.tape, ex.cells[i].offset + 1,
                          ex.cells[i].offset + ex.cells[i].length)]]

_ukv_read_head(tasks, colocated, arena, oom) ==
    LET total_bytes == read_head_total(pairs, tasks, 1, colocated)
        grow == total_bytes > arena.length
        ex == read_head_export(pairs, tasks, 1, colocated,
                               [tape |-> <<>>, cells |-> <<>>, null |-> arena.null /\ ~grow])
    IN
    /\ oom => grow
    /\ ret' = IF oom
              THEN Result("read_head", 0, "Failed to allocate memory for exports!",
                          LocatedOf(tasks, colocated), <<>>)
              ELSE Result("read_head", 0, NoErr, LocatedOf(tasks, colocated), View(ex))
    /\ UNCHANGED <<named, made, pairs, youngest_sequence, txns, last_put, drawn, hist>>

\* ---------------------------------------------------- ukv_collection_upsert
\* An upsert that makes a new collection_t for the name whether it has one or not.
upsert_anew(name, oom) ==
    /\ made[name].times < MaxMade
    /\ named' = IF oom THEN named ELSE named \cup {name}
    /\ made' = IF oom THEN made
               ELSE [made EXCEPT ![name] = [times |-> @.times + 1, live |-> TRUE]]
    /\ pairs' = IF oom THEN pairs
                ELSE [l \in Located |-> IF l[1] = name THEN NotFound ELSE pairs[l]]
    /\ ret' = IF oom
              THEN Result("collection_upsert", 0, "Failed to create a new collection!", <<>>, <<>>)
              ELSE Result("collection_upsert", 0, NoErr, <<made'[name].times>>, <<name>>)
    /\ UNCHANGED <<youngest_sequence, txns, last_put, drawn, hist>>

\* The handle is the address of the collection_t: the name with the number of the
\* collection_t it was given last (ret.at). A name that is found gets the handle it has.
ukv_collection_upsert(name, oom) ==
    /\ oom => name \notin named
    /\ name \notin named => made[name].times < MaxMade
    /\ named' = IF oom THEN named ELSE named \cup {name}
    /\ made' = IF oom THEN made
               ELSE IF name \in named THEN [made EXCEPT ![name].live = TRUE]
               ELSE [made EXCEPT ![name] = [times |-> @.times + 1, live |-> TRUE]]
    /\ ret' = IF oom
              THEN Result("collection_upsert", 0, "Failed to create a new collection!", <<>>, <<>>)
              ELSE Result("collection_upsert", 0, NoErr, <<made'[name].times>>, <<name>>)
    /\ UNCHANGED <<pairs, youngest_sequence, txns, last_put, drawn, hist>>

\* ---------------------------------------------------- ukv_collection_remove
\* The collection_t of the name is erased from db.named, and its pairs with it.
ukv_collection_remove(name) ==
    /\ named' = named \ {name}
    /\ made' = [made EXCEPT ![name].live = FALSE]
    /\ pairs' = [l \in Located |-> IF l[1] = name THEN NotFound ELSE pairs[l]]
    /\ last_put' = [l \in Located |-> IF l[1] = name THEN NoPut ELSE last_put[l]]
    /\ ret' = Result("collection_remove", 0, NoErr, <<name>>, <<>>)
    /\ UNCHANGED <<youngest_sequence, txns, drawn, hist>>

\* Whether db.named holds the name.
contains(name) ==
    /\ ret' = Result("contains", 0, NoErr, <<name>>, <<name \in named>>)
    /\ UNCHANGED <<named, made, pairs, youngest_sequence, txns, last_put, drawn, hist>>

\* ------------------------------------------------------------ ukv_txn_begin
\* A begin that reads the next sequence number and leaves youngest_sequence as it is.
ukv_txn_begin_peek(t, c_sequence_number) ==
    /\ c_sequence_number = 0 => youngest_sequence < MaxSeq
    /\ txns' = [txns EXCEPT ![t] =
                  [live |-> TRUE,
                   sequence_number |-> IF c_sequence_number # 0 THEN c_sequence_number
                                       ELSE youngest_sequence + 1,
                   requested_keys |-> [l \in Located |-> NotRequested],
                   new_values |-> [l \in Located |-> NotBuffered]]]
    /\ ret' = Result("txn_begin", t, NoErr, <<>>, <<>>)
    /\ drawn' = IF c_sequence_number # 0 THEN drawn ELSE youngest_sequence + 1
    /\ hist' = [hist EXCEPT ![t] = NoHist]
    /\ UNCHANGED <<named, made, pairs, youngest_sequence, last_put>>

\* A NULL handle gets a new txn_t; the handle takes the hinted sequence number or a
\* fresh one, and both of its sets are cleared.
ukv_txn_begin(t, c_sequence_number) ==
    /\ c_sequence_number = 0 => youngest_sequence < MaxSeq
    /\ youngest_sequence' = IF c_sequence_number # 0 THEN youngest_sequence
                            ELSE youngest_sequence + 1
    /\ txns' = [txns EXCEPT ![t] =
                  [live |-> TRUE,
                   sequence_number |-> IF c_sequence_number # 0 THEN c_sequence_number
                                       ELSE youngest_sequence + 1,
                   requested_keys |-> [l \in Located |-> NotRequested],
                   new_values |-> [l \in Located |-> NotBuffered]]]
    /\ ret' = Result("txn_begin", t, NoErr, <<>>, <<>>)
    /\ drawn' = IF c_sequence_number # 0 THEN drawn ELSE youngest_sequence + 1
    /\ hist' = [hist EXCEPT ![t] = NoHist]
    /\ UNCHANGED <<named, made, pairs, last_put>>

\* ----------------------------------------------------------- _ukv_write_txn
\* One row of the loop of _ukv_write_txn: the value is copied (allocates when it is
\* not empty), then insert_or_assign (allocates a node when the key is new).
txn_put(st, loc, value, failing) ==
    IF failing /\ (Len(value) > 0 \/ ~st.new_values[loc].buffered)
    THEN [st EXCEPT !.err = "Failed to put into transaction!"]
    ELSE [st EXCEPT !.new_values[loc] = [buffered |-> TRUE, value |-> value]]

RECURSIVE write_txn_loop(_, _, _, _, _)
write_txn_loop(st, rows, i, colocated, fail) ==
    IF i > Len(rows) \/ st.err # NoErr
    THEN st
    ELSE write_txn_loop(
            txn_put(st, LocatedAt(rows, i, colocated), rows[i].value, fail /\ i = Len(rows)),
            rows, i + 1, colocated, fail)

\* A transactional write that also puts the buffered values into the store.
write_txn_through(t, rows, colocated, fail) ==
    LET st == write_txn_loop([new_values |-> txns[t].new_values, err |-> NoErr],
                             rows, 1, colocated, fail)
    IN
    /\ txns[t].live
    /\ fail => st.err # NoErr
    /\ txns' = [txns EXCEPT ![t].new_values = st.new_values]
    /\ pairs' = [l \in Located |->
                   IF st.new_values[l].buffered
                   THEN [found |-> TRUE, data |-> st.new_values[l].value,
                         sequence_number |-> txns[t].sequence_number]
                   ELSE pairs[l]]
    /\ ret' = Result("write_txn", t, st.err, LocatedOf(rows, colocated), <<>>)
    /\ UNCHANGED <<named, made, youngest_sequence, last_put, drawn, hist>>

_ukv_write_txn(t, rows, colocated, fail) ==
    LET st == write_txn_loop([new_values |-> txns[t].new_values, err |-> NoErr],
                             rows, 1, colocated, fail)
    IN
    /\ txns[t].live
    /\ fail => st.err # NoErr
    /\ txns' = [txns EXCEPT ![t].new_values = st.new_values]
    /\ ret' = Result("write_txn", t, st.err, LocatedOf(rows, colocated), <<>>)
    /\ UNCHANGED <<named, made, pairs, youngest_sequence, last_put, drawn, hist>>

\* ------------------------------------------------------------ _ukv_read_txn
\* Step 1 of _ukv_read_txn: keys buffered in the transaction need no arena; a key of
\* the main store that was overwritten since the transaction's sequence number ends
\* the call; the others add their size. total = -1: the call ended with the error.
RECURSIVE read_txn_total(_, _, _, _, _, _)
read_txn_total(p, txn, youngest, tasks, i, colocated) ==
    IF i > Len(tasks) THEN 0
    ELSE LET loc == LocatedAt(tasks, i, colocated)
             rest == read_txn_total(p, txn, youngest, tasks, i + 1, colocated)
         IN IF txn.new_values[loc].buffered THEN rest
            ELSE IF p[loc].found
                 THEN IF entry_was_overwritten(p[loc].sequence_number, txn.sequence_number, youngest)
                      THEN -1
                      ELSE IF rest = -1 THEN -1 ELSE Len(p[loc].data) + rest
                 ELSE rest

\* Step 3 of _ukv_read_txn: buffered values are returned in place (the data() of an
\* empty vector is NULL), found ones are copied to the arena, the others are NULL.
RECURSIVE read_txn_export(_, _, _, _, _, _)
read_txn_export(p, txn, tasks, i, colocated, ex) ==
    IF i > Len(tasks) THEN ex
    ELSE LET loc == LocatedAt(tasks, i, colocated) IN
         IF txn.new_values[loc].buffered
         THEN read_txn_export(p, txn, tasks, i + 1, colocated,
                  [ex EXCEPT !.cells = Append(@, [null |-> txn.new_values[loc].value = <<>>,
                                                  length |-> Len(txn.new_values[loc].value),
                                                  bytes |-> txn.new_values[loc].value])])
         ELSE IF p[loc].found
         THEN read_txn_export(p, txn, tasks, i + 1, colocated,
                  [ex EXCEPT !.tape = @ \o p[loc].data,
                             !.cells = Append(@, [null |-> FALSE,
                                                  length |-> Len(p[loc].data),
                                                  bytes |-> SubSeq(ex.tape \o p[loc].data,
                                                                   Len(ex.tape) + 1,
                                                                   Len(ex.tape) + Len(p[loc].data))])])
         ELSE read_txn_export(p, txn, tasks, i + 1, colocated,
                  [ex EXCEPT !.cells = Append(@, [null |-> TRUE, length |-> 0, bytes |-> <<>>])])

Overwritten == "Requested key was already overwritten since the start of the transaction!"

\* A transactional read that passes by the write set and reads the main store only.
read_txn_of_head(t, tasks, colocated, consistent, arena, oom) ==
    LET txn == [txns[t] EXCEPT !.new_values = [l \in Located |-> NotBuffered]]
        total_bytes == read_txn_total(pairs, txn, youngest_sequence, tasks, 1, colocated)
        ex == read_txn_export(pairs, txn, tasks, 1, colocated, [tape |-> <<>>, cells |-> <<>>])
        at == LocatedOf(tasks, colocated)
    IN
    /\ txns[t].live
    /\ oom => total_bytes >= arena.length
    /\ ret' = IF total_bytes = -1 THEN Result("read_txn", t, Overwritten, at, <<>>)
              ELSE IF oom
              THEN Result("read_txn", t, "Failed to allocate memory for exports!", at, <<>>)
              ELSE Result("read_txn", t, NoErr, at, ex.cells)
    /\ hist' = IF total_bytes = -1 \/ oom THEN hist
               ELSE HistRead(t, at, ex.cells, consistent)
    /\ UNCHANGED <<named, made, pairs, youngest_sequence, txns, last_put, drawn>>

\* consistent: ukv_option_read_consistent_k is set in c_options; no line of the
\* read looks at it. Step 2 takes a new arena whenever total_bytes >= *c_arena_length.
_ukv_read_txn(t, tasks, colocated, consistent, arena, oom) ==
    LET total_bytes == read_txn_total(pairs, txns[t], youngest_sequence, tasks, 1, colocated)
        ex == read_txn_export(pairs, txns[t], tasks, 1, colocated, [tape |-> <<>>, cells |-> <<>>])
        at == LocatedOf(tasks, colocated)
    IN
    /\ txns[t].live
    /\ oom => total_bytes >= arena.length
    /\ ret' = IF total_bytes = -1 THEN Result("read_txn", t, Overwritten, at, <<>>)
              ELSE IF oom
              THEN Result("read_txn", t, "Failed to allocate memory for exports!", at, <<>>)
              ELSE Result("read_txn", t, NoErr, at, ex.cells)
    /\ hist' = IF total_bytes = -1 \/ oom THEN hist
               ELSE HistRead(t, at, ex.cells, consistent)
    /\ UNCHANGED <<named, made, pairs, youngest_sequence, txns, last_put, drawn>>

\* ----------------------------------------------------------- ukv_txn_commit
Buffered(txn) == {l \in Located : txn.new_values[l].buffered}

\* Step 1: the requested keys whose entry has another sequence number than the recorded one.
commit_refreshed(p, txn) ==
    {l \in Located : /\ txn.requested_keys[l].requested
                     /\ p[l].found
                     /\ p[l].sequence_number # txn.requested_keys[l].sequence}

\* Step 2: the error each buffered key raises, if any.
commit_collision(p, txn, youngest, l) ==
    IF ~p[l].found THEN NoErr
    ELSE IF p[l].sequence_number = txn.sequence_number
         THEN "Can't commit same entry more than once!"
         ELSE IF entry_was_overwritten(p[l].sequence_number, txn.sequence_number, youngest)
              THEN "Incoming key collides with newer entry!"
              ELSE NoErr

\* The loops run in the order of the hash table, so any of the keys that raise an
\* error may be the one that ends the call.
commit_errors(p, txn, youngest) ==
    IF commit_refreshed(p, txn) # {}
    THEN {Overwritten}
    ELSE {commit_collision(p, txn, youngest, l) : l \in Buffered(txn)} \ {NoErr}

\* Step 4 on the buffered keys done: each value is swapped into its entry, or moved
\* into a new one, with the sequence number of the transaction.
commit_import(p, txn, done) ==
    [l \in Located |->
        IF l \in done
        THEN [found |-> TRUE, data |-> txn.new_values[l].value,
              sequence_number |-> txn.sequence_number]
        ELSE p[l]]

\* What step 4 leaves in the buffers: the old data of a swapped entry, nothing of a
\* moved one (moved: the keys of done, and the key whose insert has thrown).
commit_leftover(p, txn, moved) ==
    [l \in Located |->
        IF l \in moved
        THEN [buffered |-> TRUE, value |-> IF p[l].found THEN p[l].data ELSE <<>>]
        ELSE txn.new_values[l]]

\* A commit that empties the write set when it finds a conflict.
commit_abort_reset(t, e) ==
    /\ ret' = Result("txn_commit", t, e, <<>>, <<>>)
    /\ txns' = [txns EXCEPT ![t].new_values = [l \in Located |-> NotBuffered]]
    /\ UNCHANGED <<pairs, last_put, hist>>

\* The return of steps 1 and 2: the error is set, nothing else is touched.
commit_abort(t, e) ==
    /\ ret' = Result("txn_commit", t, e, <<>>, <<>>)
    /\ UNCHANGED <<pairs, txns, last_put, hist>>

Thrown == "std::bad_alloc"      \* the exception leaves the call, *c_error is not set
CommitFaults == {"none", "reserve", "insert"}

\* oom: where the allocator throws: in the reserve_more of step 3, which is caught, or
\* in an insert_or_assign of step 4 (reserve() takes buckets, not nodes), which is not
\* caught: the loop of step 4 ends at a key that is new to the store, after the keys
\* that the hash table of new_values happened to hold before it.
txn_commit_with(t, oom, youngest_sequence_number) ==
    LET txn == txns[t]
        errors == commit_errors(pairs, txn, youngest_sequence_number)
    IN
    /\ txn.live
    /\ oom # "none" => errors = {}
    /\ IF errors # {}
       THEN \E e \in errors : commit_abort(t, e)
       ELSE IF oom = "reserve"
       THEN /\ ret' = Result("txn_commit", t, "Not enough memory!", <<>>, <<>>)
            /\ UNCHANGED <<pairs, txns, last_put, hist>>
       ELSE \E done \in SUBSET Buffered(txn) :
            /\ IF oom = "insert"
               THEN \E l \in Buffered(txn) \ done :
                       /\ ~pairs[l].found
                       /\ txns' = [txns EXCEPT ![t].new_values =
                                      commit_leftover(pairs, txn, done \cup {l})]
                       /\ ret' = Result("txn_commit", t, Thrown, <<>>, <<>>)
               ELSE /\ done = Buffered(txn)
                    /\ txns' = [txns EXCEPT ![t].new_values = commit_leftover(pairs, txn, done)]
                    /\ ret' = Result("txn_commit", t, NoErr, <<>>, <<>>)
            /\ pairs' = commit_import(pairs, txn, done)
            /\ last_put' = [l \in Located |->
                              IF l \in done
                              THEN [puts |-> last_put[l].puts + 1, value |-> txn.new_values[l].value,
                                    erased |-> FALSE]
                              ELSE last_put[l]]
            /\ hist' = HistPut(t, done)
    /\ UNCHANGED <<named, made, youngest_sequence, drawn>>

\* The whole call at once: youngest_sequence_number is the value of
\* db.youngest_sequence at that moment.
ukv_txn_commit(t, oom) == txn_commit_with(t, oom, youngest_sequence)

\* ------------------------------------------------------------- ukv_txn_free
ukv_txn_free(t) ==
    /\ txns[t].live
    /\ txns' = [txns EXCEPT ![t] = NullTxn]
    /\ ret' = Result("txn_free", t, NoErr, <<>>, <<>>)
    /\ hist' = [hist EXCEPT ![t] = NoHist]
    /\ UNCHANGED <<named, made, pairs, youngest_sequence, last_put, drawn>>

\* The caller takes the outputs of the call, when the call has come back.
Return ==
    /\ ret # Idle
    /\ ret.err \notin {"the process crashes", "the call does not return"}
    /\ ret' = Idle
    /\ UNCHANGED <<named, made, pairs, youngest_sequence, txns, last_put, drawn, hist, hash, path_put, mutex, pc>>

\* ------------------------------------------------------------------- Next
\* In colocated mode only the first handle is looked at: the others are passed NULL.
Colocatable(rows) == rows # <<>> /\ \A i \in 2..Len(rows) : rows[i].collection = NullHandle

\* A call of the binary interface: it leaves the paths modality alone.
Call(op) == ret = Idle /\ op /\ UNCHANGED <<hash, path_put, mutex, pc>>

NextHead ==
    \/ Call(\E name \in Names, oom \in BOOLEAN : ukv_collection_upsert(name, oom))
    \/ Call(\E rows \in SeqsUpTo(RowsOf(Keys, Values \cup {NullValue}), MaxBatch),
            colocated, fail \in BOOLEAN :
          /\ colocated => Colocatable(rows)
          /\ fail => rows # <<>>
          /\ _ukv_write_head(rows, colocated, fail))
    \/ Call(\E tasks \in SeqsUpTo(TasksOf(Keys), MaxBatch), colocated \in BOOLEAN,
          arena \in Arenas, oom \in BOOLEAN :
          /\ colocated => Colocatable(tasks)
          /\ _ukv_read_head(tasks, colocated, arena, oom))
    \/ Call(\E tasks \in SeqsUpTo(TasksOf(Keys), MaxBatch), colocated \in BOOLEAN :
          /\ colocated => Colocatable(tasks)
          /\ _ukv_measure_head(tasks, colocated))
    \/ Return

SpecHead == Init /\ [][NextHead]_vars

\* C1: a HEAD read that succeeds returns one cell per requested key, and the cell of
\* a key holds exactly the bytes and the length that the most recent successful HEAD
\* write of that key was given (nothing of an older value), and no bytes for a key
\* that was never written.
HeadReadReturnsLastWrite ==
    (ret.op = "read_head" /\ ret.err = NoErr) =>
        /\ Len(ret.out) = Len(ret.at)
        /\ \A i \in 1..Len(ret.at) :
              /\ ret.out[i].bytes = last_put[ret.at[i]].value
              /\ ret.out[i].length = Len(last_put[ret.at[i]].value)
              /\ last_put[ret.at[i]].puts = 0 => ret.out[i].null

\* A read of two keys: one was written and then overwritten by a shorter value, the
\* other one was never written.
HeadReadOfOverwrittenKey ==
    /\ ret.op = "read_head" /\ ret.err = NoErr
    /\ Len(ret.at) = 2
    /\ \E i \in 1..2 : /\ last_put[ret.at[i]].puts = 2
                       /\ ret.out[i].bytes = <<1>>
                       /\ last_put[ret.at[3 - i]].puts = 0
                       /\ ret.out[3 - i].null

\* C11: a read or a measurement on HEAD that asks for a key whose latest write gave
\* a value of length 0 and for a key that was never written reports length 0 for
\* the first one and reports the two keys differently.
EmptyDiffersFromMissing ==
    (ret.op \in {"read_head", "measure_head"} /\ ret.err = NoErr) =>
        \A i, j \in 1..Len(ret.at) :
            (/\ last_put[ret.at[i]].puts > 0
             /\ last_put[ret.at[i]].value = <<>>
             /\ last_put[ret.at[j]].puts = 0)
            => /\ ret.out[i].length = 0
               /\ ret.out[i] # ret.out[j]

\* C12: once a HEAD write row has deleted a key, and until the key is written again,
\* a HEAD read returns no value for it (a NULL pointer), as for a key that was never
\* written.
ErasedKeyReadsAbsent ==
    (ret.op = "read_head" /\ ret.err = NoErr) =>
        \A i \in 1..Len(ret.at) : last_put[ret.at[i]].erased => ret.out[i].null

\* C24: a HEAD batch write that ends with an error leaves every entry and the
\* youngest sequence number as they were before the batch.
FailedBatchChangesNothing ==
    [][(ret = Idle /\ ret'.op = "write_head" /\ ret'.err # NoErr)
        => (pairs' = pairs /\ youngest_sequence' = youngest_sequence)]_vars

\* ------------------------------------------------------- named collections
\* One caller that upserts, removes and asks for names, and writes single rows on HEAD.
NextNamed ==
    \/ Call(\E name \in Names, oom \in BOOLEAN : ukv_collection_upsert(name, oom))
    \/ Call(\E name \in AllNames : ukv_collection_remove(name))
    \/ Call(\E name \in AllNames : contains(name))
    \/ Call(\E rows \in SeqsUpTo(RowsOf(Keys, Values), 1) :
          _ukv_write_head(rows, FALSE, FALSE))
    \/ Return

SpecNamed == Init /\ [][NextNamed]_vars

\* C19: an upsert that succeeds leaves db.named holding the name; for a name that has
\* no collection it makes one without entries; for a name that has one it returns the
\* handle that the earlier upsert returned and changes no entry of any collection. A
\* name that was never upserted, or was removed since, is reported as not contained.
UpsertReturnsTheCollection ==
    [][/\ (ret = Idle /\ ret'.op = "collection_upsert" /\ ret'.err = NoErr) =>
            LET name == ret'.out[1]
            IN /\ name \in named'
               /\ made[name].live =>
                     /\ ret'.at = <<made[name].times>>
                     /\ pairs' = pairs
               /\ ~made[name].live =>
                     \A k \in Keys : pairs'[<<name, k>>] = NotFound
       /\ (ret = Idle /\ ret'.op = "contains" /\ ~made[ret'.at[1]].live) =>
            ret'.out = <<FALSE>>]_vars

\* The second upsert of a name whose collection was removed once, made again and has
\* an entry by now.
UpsertOfWrittenCollection ==
    /\ ret.op = "collection_upsert"
    /\ ret.err = NoErr
    /\ made[ret.out[1]].times = 2
    /\ \E k \in Keys : pairs[<<ret.out[1], k>>].found

\* The transactional runs make calls of one row on the unnamed collection.
TxnValues == {<<1>>, <<2, 3>>}
NullArena == [null |-> TRUE, length |-> 0]
Single(S) == {<<r>> : r \in S}

\* Two transactions, HEAD writes and HEAD reads on one key; every transactional
\* read asks for read tracking.
Next ==
    \/ Call(\E rows \in Single(RowsOf({34}, TxnValues)), fail \in BOOLEAN :
          _ukv_write_head(rows, FALSE, fail))
    \/ Call(\E tasks \in Single(TasksOf({34})), oom \in BOOLEAN :
          _ukv_read_head(tasks, FALSE, NullArena, oom))
    \/ Call(\E t \in Txns, hint \in SeqHints : ukv_txn_begin(t, hint))
    \/ Call(\E t \in Txns, rows \in Single(RowsOf({34}, TxnValues)), fail \in BOOLEAN :
          _ukv_write_txn(t, rows, FALSE, fail))
    \/ Call(\E t \in Txns, tasks \in Single(TasksOf({34})), oom \in BOOLEAN :
          _ukv_read_txn(t, tasks, FALSE, TRUE, NullArena, oom))
    \/ Call(\E t \in Txns, oom \in CommitFaults : ukv_txn_commit(t, oom))
    \/ Call(\E t \in Txns : ukv_txn_free(t))
    \/ Return

Spec == Init /\ [][Next]_vars

\* The errors that report a conflict, and the outcomes of a failed allocation.
ConflictErrors ==
    {Overwritten, "Can't commit same entry more than once!",
     "Incoming key collides with newer entry!"}
AllocationFailures == {"Not enough memory!", Thrown}

\* C28: a transactional write changes no entry of the store (value or sequence
\* number), and neither does ukv_txn_free nor a ukv_txn_begin on a handle that is in
\* use; after ukv_txn_begin the handle has no requested key and no buffered value;
\* a HEAD read, and a transactional read of a key that its own transaction has not
\* buffered, return the bytes of the latest HEAD write or commit of the key, and
\* nothing that is only buffered.
BufferedWritesStayInTheTransaction ==
    [][ret = Idle =>
         /\ ret'.op \in {"write_txn", "txn_free", "txn_begin"} => pairs' = pairs
         /\ ret'.op = "txn_begin" =>
               \A l \in Located : /\ ~txns'[ret'.txn].new_values[l].buffered
                                  /\ ~txns'[ret'.txn].requested_keys[l].requested
         /\ (ret'.op = "read_head" /\ ret'.err = NoErr) =>
               \A i \in 1..Len(ret'.at) : ret'.out[i].bytes = last_put[ret'.at[i]].value
         /\ (ret'.op = "read_txn" /\ ret'.err = NoErr) =>
               \A i \in 1..Len(ret'.at) :
                   ~txns[ret'.txn].new_values[ret'.at[i]].buffered
                      => ret'.out[i].bytes = last_put[ret'.at[i]].value]_vars

\* A transaction has read a key of the store that the other transaction, begun with
\* a sequence number of its own, has buffered with another value.
ReadBesideABufferedWrite ==
    /\ ret.op = "read_txn" /\ ret.err = NoErr
    /\ pairs[ret.at[1]].found
    /\ \E u \in Txns \ {ret.txn} :
          /\ txns[u].new_values[ret.at[1]].buffered
          /\ txns[u].new_values[ret.at[1]].value # ret.out[1].bytes
          /\ txns[u].sequence_number = MaxSeq + 1
          /\ youngest_sequence = MaxSeq

\* C3: when a transaction commits while one of the keys of its write set was put by
\* the successful commit of another transaction since it began, the commit ends with
\* a conflict error, whichever of the two transactions began first.
FirstCommitterWins ==
    (/\ ret.op = "txn_commit"
     /\ ret.err \notin AllocationFailures
     /\ \E l \in Buffered(txns[ret.txn]) : hist[ret.txn][l].newer = "txn")
    => ret.err \in ConflictErrors

\* C4: when a transaction commits after a key that it read with read tracking was
\* overwritten on HEAD, the commit ends with a conflict error, also when the key is
\* not in its write set.
TrackedReadConflicts ==
    (/\ ret.op = "txn_commit"
     /\ ret.err \notin AllocationFailures
     /\ \E l \in Located : hist[ret.txn][l].tracked = "stale")
    => ret.err \in ConflictErrors

\* C5: a transactional read that succeeds returns, for a key outside the write set of
\* the transaction, no value that was put (by a HEAD write or by the commit of another
\* transaction) after the transaction began.
ReadsSeeNothingNewer ==
    (ret.op = "read_txn" /\ ret.err = NoErr) =>
        \A i \in 1..Len(ret.at) :
            ~txns[ret.txn].new_values[ret.at[i]].buffered
                => hist[ret.txn][ret.at[i]].newer = "none"

\* C6: a read of a key outside the write set of the transaction returns the bytes
\* that the first read of that key in the transaction returned.
ReadsAreRepeatable ==
    (ret.op = "read_txn" /\ ret.err = NoErr) =>
        \A i \in 1..Len(ret.at) :
            (/\ ~txns[ret.txn].new_values[ret.at[i]].buffered
             /\ hist[ret.txn][ret.at[i]].first.read)
                => ret.out[i].bytes = hist[ret.txn][ret.at[i]].first.cell.bytes

\* C7: a commit that ends with a conflict error changes no entry (value or sequence
\* number), no collection, and neither the sequence number nor the write set of the
\* transaction.
ConflictChangesNothing ==
    [][(ret'.op = "txn_commit" /\ ret'.err \in ConflictErrors)
        => /\ pairs' = pairs
           /\ named' = named
           /\ youngest_sequence' = youngest_sequence
           /\ txns' = txns]_vars

\* A commit that has ended with a conflict, of a transaction that has a write set, on
\* a store that holds an entry.
ConflictOnCommit ==
    /\ ret.op = "txn_commit"
    /\ ret.err = "Incoming key collides with newer entry!"
    /\ \E l \in Buffered(txns[ret.txn]) : pairs[l].found /\ pairs[l].data # txns[ret.txn].new_values[l].value

\* C8: a commit that succeeds advances youngest_sequence by exactly one and gives
\* that new sequence number to every entry it writes.
CommitTakesFreshSequence ==
    [][(ret'.op = "txn_commit" /\ ret'.err = NoErr)
        => /\ youngest_sequence' = youngest_sequence + 1
           /\ \A l \in Buffered(txns[ret'.txn]) :
                 pairs'[l].sequence_number = youngest_sequence']_vars

\* C9: no entry of the store has a sequence number greater than youngest_sequence.
EntriesNotYoungerThanYoungest ==
    \A l \in Located : pairs[l].found => pairs[l].sequence_number <= youngest_sequence

NextCommit ==
    \/ Call(\E rows \in Single(RowsOf(Keys, {<<1>>})) : _ukv_write_head(rows, FALSE, FALSE))
    \/ Call(\E tasks \in Single(TasksOf(Keys)) : _ukv_read_head(tasks, FALSE, NullArena, FALSE))
    \/ Call(\E hint \in SeqHints : ukv_txn_begin(1, hint))
    \/ Call(\E rows \in Single(RowsOf(Keys, TxnValues)), fail \in BOOLEAN :
          _ukv_write_txn(1, rows, FALSE, fail))
    \/ Call(\E tasks \in Single(TasksOf(Keys)), consistent \in BOOLEAN :
          _ukv_read_txn(1, tasks, FALSE, consistent, NullArena, FALSE))
    \/ Call(\E oom \in CommitFaults : ukv_txn_commit(1, oom))
    \/ Call(ukv_txn_free(1))
    \/ Return

SpecCommit == Init /\ [][NextCommit]_vars

\* C2: a commit puts every buffered write of the transaction into the store, or none.
CommitAllOrNothing ==
    [][ret'.op = "txn_commit" =>
          \/ pairs' = pairs
          \/ \A l \in Buffered(txns[ret'.txn]) :
                /\ pairs'[l].found
                /\ pairs'[l].data = txns[ret'.txn].new_values[l].value]_vars

\* ------------------------------------------------------------------ db.mutex
\* Two threads, each with its own transaction handle. A call that takes db.mutex is
\* two steps: the lock is taken (and, in a commit, db.youngest_sequence is loaded),
\* then the rest of the call runs and the lock is released at its return.
\* ukv_txn_begin and ukv_txn_free take no lock: they are one step, whoever holds it.
std_unique_lock(th, op) ==
    /\ pc[th] = Outside
    /\ mutex = Unlocked
    /\ op = "txn_commit" => txns[th].live
    /\ mutex' = [unique |-> th, shared |-> {}]
    /\ pc' = [pc EXCEPT ![th] =
                [op |-> op,
                 youngest_sequence_number |-> IF op = "txn_commit" THEN youngest_sequence
                                              ELSE 0]]
    /\ UNCHANGED <<named, made, pairs, youngest_sequence, txns, ret, last_put, drawn,
                   hist, hash, path_put>>

std_shared_lock(th, op) ==
    /\ pc[th] = Outside
    /\ mutex.unique = 0
    /\ op = "write_txn" => txns[th].live
    /\ mutex' = [mutex EXCEPT !.shared = @ \cup {th}]
    /\ pc' = [pc EXCEPT ![th] = [op |-> op, youngest_sequence_number |-> 0]]
    /\ UNCHANGED <<named, made, pairs, youngest_sequence, txns, ret, last_put, drawn,
                   hist, hash, path_put>>

\* A return that keeps the lock.
return_locked(th) ==
    /\ mutex' = mutex
    /\ pc' = [pc EXCEPT ![th] = Outside]
    /\ UNCHANGED <<hash, path_put>>

\* The lock guard goes out of scope at the return of the call.
unlock(th) ==
    /\ mutex' = [unique |-> IF mutex.unique = th THEN 0 ELSE mutex.unique,
                 shared |-> mutex.shared \ {th}]
    /\ pc' = [pc EXCEPT ![th] = Outside]
    /\ UNCHANGED <<hash, path_put>>

Unlocked_call(th, op) ==
    /\ pc[th] = Outside
    /\ op
    /\ UNCHANGED <<hash, path_put, mutex, pc>>

NextLock ==
    \/ \E th \in Txns : std_unique_lock(th, "write_head")
    \/ \E th \in Txns : std_unique_lock(th, "txn_commit")
    \/ \E th \in Txns : std_shared_lock(th, "read_head")
    \/ \E th \in Txns : std_shared_lock(th, "write_txn")
    \/ \E th \in Txns, rows \in Single(RowsOf({34}, {<<1>>})) :
          /\ pc[th].op = "write_head"
          /\ _ukv_write_head(rows, FALSE, FALSE)
          /\ unlock(th)
    \/ \E th \in Txns :
          /\ pc[th].op = "txn_commit"
          /\ txn_commit_with(th, "none", pc[th].youngest_sequence_number)
          /\ unlock(th)
    \/ \E th \in Txns, tasks \in Single(TasksOf({34})) :
          /\ pc[th].op = "read_head"
          /\ _ukv_read_head(tasks, FALSE, NullArena, FALSE)
          /\ unlock(th)
    \/ \E th \in Txns, rows \in Single(RowsOf({34}, {<<1>>})) :
          /\ pc[th].op = "write_txn"
          /\ _ukv_write_txn(th, rows, FALSE, FALSE)
          /\ unlock(th)
    \/ \E th \in Txns : Unlocked_call(th, ukv_txn_begin(th, 0))
    \/ \E th \in Txns : Unlocked_call(th, ukv_txn_free(th))

SpecLock == Init /\ [][NextLock]_vars

\* --------------------------------------------------------- waiting for db.mutex
\* The same two threads, with the wait for the lock as a place of its own: a call
\* is invoked, waits until it gets db.mutex in its mode, runs and returns. The
\* calls that draw a sequence number or make a collection are invoked while the
\* bounds leave room for them and for the calls already under way.
Exclusive == {"write_head", "txn_commit", "collection_upsert", "collection_remove"}
Shared == {"read_head"}
Invoked(op) == [op |-> "invoked", call |-> op]
InCall(th, op) == pc[th] = Invoked(op) \/ pc[th].op = op
Reserved == Cardinality({th \in Txns : InCall(th, "write_head")})

invoke(th, op) ==
    /\ pc[th] = Outside
    /\ op = "txn_commit" => txns[th].live
    /\ op = "write_head" => youngest_sequence + Reserved < MaxSeq
    /\ op = "collection_upsert" =>
          /\ made["col"].times < MaxMade
          /\ \A u \in Txns : ~InCall(u, "collection_upsert")
    /\ pc' = [pc EXCEPT ![th] = Invoked(op)]
    /\ UNCHANGED <<named, made, pairs, youngest_sequence, txns, ret, last_put, drawn,
                   hist, hash, path_put, mutex>>

\* std::unique_lock _ {db.mutex} or std::shared_lock _ {db.mutex} gets the lock.
acquire(th) ==
    /\ pc[th].op = "invoked"
    /\ IF pc[th].call \in Exclusive
       THEN /\ mutex = Unlocked
            /\ mutex' = [unique |-> th, shared |-> {}]
       ELSE /\ mutex.unique = 0
            /\ mutex' = [mutex EXCEPT !.shared = @ \cup {th}]
    /\ pc' = [pc EXCEPT ![th] =
                [op |-> pc[th].call,
                 youngest_sequence_number |-> IF pc[th].call = "txn_commit"
                                              THEN youngest_sequence ELSE 0]]
    /\ UNCHANGED <<named, made, pairs, youngest_sequence, txns, ret, last_put, drawn,
                   hist, hash, path_put>>

\* The rest of the call of th, to its return.
run(th) ==
    /\ pc[th].op \in Exclusive \cup Shared
    /\ \/ /\ pc[th].op = "write_head"
          /\ \E rows \in Single(RowsOf({34}, {<<1>>})) : _ukv_write_head(rows, FALSE, FALSE)
       \/ /\ pc[th].op = "txn_commit"
          /\ txn_commit_with(th, "none", pc[th].youngest_sequence_number)
       \/ /\ pc[th].op = "collection_upsert"
          /\ ukv_collection_upsert("col", FALSE)
       \/ /\ pc[th].op = "collection_remove"
          /\ ukv_collection_remove("col")
       \/ /\ pc[th].op = "read_head"
          /\ \E tasks \in Single(TasksOf({34})) : _ukv_read_head(tasks, FALSE, NullArena, FALSE)
    /\ unlock(th)

begin_beside(th) ==
    /\ youngest_sequence + Reserved < MaxSeq
    /\ Unlocked_call(th, ukv_txn_begin(th, 0))

NextWait ==
    \/ \E th \in Txns, op \in Exclusive \cup Shared : invoke(th, op)
    \/ \E th \in Txns : acquire(th)
    \/ \E th \in Txns : run(th)
    \/ \E th \in Txns : begin_beside(th)

\* The lock is fair: a thread that can get it again and again gets it; a thread
\* that holds it runs on.
SpecWait ==
    /\ Init /\ [][NextWait]_vars
    /\ \A th \in Txns : SF_vars(acquire(th)) /\ WF_vars(run(th))

\* C35: every call that was invoked returns: the thread that waits for db.mutex
\* gets it, and the thread that holds it gives it back.
EveryCallReturns ==
    \A th \in Txns : (pc[th] # Outside) ~> (pc[th] = Outside)

\* A thread waits for db.mutex while the other thread holds it exclusively in a
\* commit.
WaitsForTheCommit ==
    \E th \in Txns : \E u \in Txns \ {th} :
        /\ pc[th].op = "invoked"
        /\ mutex.unique = u
        /\ pc[u].op = "txn_commit"

\* C25: a step that changes an entry of the store or the youngest sequence number is
\* made by a thread that holds db.mutex exclusively, a thread that reads the store
\* holds it at least shared, and while a commit holds db.mutex exclusively the
\* youngest sequence number does not change.
SharedStateChangesUnderTheLock ==
    [][/\ (pairs' # pairs \/ youngest_sequence' # youngest_sequence) => mutex.unique # 0
       /\ (ret' # ret /\ ret'.op = "read_head") => mutex.shared # {}
       /\ (\E th \in Txns : mutex.unique = th /\ pc[th].op = "txn_commit")
             => youngest_sequence' = youngest_sequence]_vars

\* -------------------------------------------------------------------- retry
\* Thread 1 runs the program of a caller that retries: it begins its transaction
\* without giving a sequence number, buffers writes of key 34, commits, and starts
\* over with a new ukv_txn_begin whatever the commit has answered. Thread 2 begins
\* with or without a sequence number of its own, buffers and commits; HEAD writes go
\* to both keys.
Begun == [op |-> "begun", youngest_sequence_number |-> 0]
Hints == 0..MaxSeq

retry_begin ==
    /\ ret = Idle
    /\ pc[1] = Outside
    /\ ukv_txn_begin(1, 0)
    /\ pc' = [pc EXCEPT ![1] = Begun]
    /\ UNCHANGED <<hash, path_put, mutex>>

retry_write ==
    /\ pc[1] = Begun
    /\ Call(\E rows \in Single(RowsOf({34}, {<<1>>})) : _ukv_write_txn(1, rows, FALSE, FALSE))

retry_commit ==
    /\ ret = Idle
    /\ pc[1] = Begun
    /\ ukv_txn_commit(1, "none")
    /\ pc' = [pc EXCEPT ![1] = Outside]
    /\ UNCHANGED <<hash, path_put, mutex>>

NextRetry ==
    \/ retry_begin
    \/ retry_write
    \/ retry_commit
    \/ Call(\E hint \in Hints : ukv_txn_begin(2, hint))
    \/ Call(\E rows \in Single(RowsOf({34}, {<<2, 3>>})) : _ukv_write_txn(2, rows, FALSE, FALSE))
    \/ Call(ukv_txn_commit(2, "none"))
    \/ Call(\E rows \in Single(RowsOf(Keys, {<<>>})) : _ukv_write_head(rows, FALSE, FALSE))
    \/ Return

SpecRetry == Init /\ [][NextRetry]_vars

\* C27: the commit of a transaction that was begun without a given sequence number
\* and has buffered writes succeeds, when no HEAD write and no commit of another
\* transaction has put one of its keys since its ukv_txn_begin; so does the commit
\* of a transaction that was begun again after a conflict.
UntouchedTransactionCommits ==
    [][(/\ ret = Idle
        /\ ret'.op = "txn_commit"
        /\ ret'.txn = 1
        /\ Buffered(txns[1]) # {}
        /\ \A l \in Buffered(txns[1]) : hist[1][l].newer = "none")
       => ret'.err = NoErr]_vars

\* ---------------------------------------------------------------- write set
\* One transaction that buffers values and deletes (a value of length 0) of two
\* keys, in calls of one or two rows, and commits; HEAD writes and HEAD reads.
BufferedValues == {<<>>, <<1>>}

NextBuffer ==
    \/ Call(\E rows \in Single(RowsOf(Keys, {<<2, 3>>})) : _ukv_write_head(rows, FALSE, FALSE))
    \/ Call(\E tasks \in Single(TasksOf(Keys)) : _ukv_read_head(tasks, FALSE, NullArena, FALSE))
    \/ Call(ukv_txn_begin(1, 0))
    \/ Call(\E rows \in SeqsUpTo(RowsOf(Keys, BufferedValues), MaxBatch) \ {<<>>} :
          _ukv_write_txn(1, rows, FALSE, FALSE))
    \/ Call(ukv_txn_commit(1, "none"))
    \/ Return

SpecBuffer == Init /\ [][NextBuffer]_vars

\* C29: after a commit that succeeds, a key that the transaction had buffered with a
\* value of length 0 (a delete) has no entry in its collection.
CommittedDeleteRemovesTheEntry ==
    [][(ret = Idle /\ ret'.op = "txn_commit" /\ ret'.err = NoErr) =>
          \A l \in Buffered(txns[ret'.txn]) :
              txns[ret'.txn].new_values[l].value = <<>> => ~pairs'[l].found]_vars

\* C30: a transactional write of a key that the transaction has already buffered
\* ends with an error, and the write set keeps the value that was buffered first.
SecondWriteIsRejected ==
    [][(ret = Idle /\ ret'.op = "write_txn") =>
          \A i \in 1..Len(ret'.at) :
              txns[ret'.txn].new_values[ret'.at[i]].buffered =>
                  /\ ret'.err # NoErr
                  /\ txns'[ret'.txn].new_values[ret'.at[i]]
                        = txns[ret'.txn].new_values[ret'.at[i]]]_vars

\* =========================================================== modality_paths
\* Memory is a sequence of bytes; an offset counts from 0. A view (value_view_t,
\* std::string_view) is a place in a memory: [present, at, size]; a view that is
\* not present has size 0.
counter_size_k == 4
bytes_in_header_k == counter_size_k
Beyond == 0                     \* what a read past the end of a memory finds
Garbage == 0..1                 \* the counters that a fresh allocation may hold

MissingView == [present |-> FALSE, at |-> 0, size |-> 0]
ViewAt(at, size) == [present |-> TRUE, at |-> at, size |-> size]

Peek(mem, at) == IF at + 1 \in 1..Len(mem) THEN mem[at + 1] ELSE Beyond
\* All the sequences below are built element by element, once: Listed.
Listed(f, n) == SubSeq(f, 1, n)
\* The n bytes from the offset at on; what lies past the end of the memory reads
\* as Beyond.
Sub(mem, at, n) ==
    IF n <= 0 THEN <<>>
    ELSE IF at + n <= Len(mem) THEN SubSeq(mem, at + 1, at + n)
    ELSE Listed([i \in 1..n |-> Peek(mem, at + i - 1)], n)
Slice(mem, v) == Sub(mem, v.at, v.size)
\* memcpy of bytes to the offset at of mem; what would be written past the end of
\* the memory is not kept.
Poke(mem, at, bytes) ==
    IF at + Len(bytes) <= Len(mem)
    THEN SubSeq(mem, 1, at) \o bytes \o SubSeq(mem, at + Len(bytes) + 1, Len(mem))
    ELSE Listed([i \in 1..Len(mem) |->
                    IF i > at /\ i <= at + Len(bytes) THEN bytes[i - at] ELSE mem[i]], Len(mem))

\* A ukv_length_t in memory: little-endian, counter_size_k bytes.
U32(n) == <<n % 256, (n \div 256) % 256, (n \div 65536) % 256, (n \div 16777216) % 256>>
ReadU32(mem, at) ==
    Peek(mem, at) + 256 * Peek(mem, at + 1) + 65536 * Peek(mem, at + 2)
        + 16777216 * Peek(mem, at + 3)

\* arena.alloc<byte_t>(n): n bytes that are not initialized; every counter of them
\* reads as g.
alloc(n, g) == Listed([i \in 1..n |-> U32(g)[((i - 1) % counter_size_k) + 1]], n)

get_bucket_size(mem, bucket) ==
    IF bucket.size > bytes_in_header_k THEN ReadU32(mem, bucket.at) ELSE 0

\* std::accumulate over n counters that start at the offset at
RECURSIVE accumulate(_, _, _)
accumulate(mem, at, n) ==
    IF n = 0 THEN 0 ELSE ReadU32(mem, at) + accumulate(mem, at + counter_size_k, n - 1)

\* The i-th step of the iterator of get_bucket_keys: the counters start after the
\* header, the bytes after the 2 * size counters.
get_bucket_keys(mem, bucket, size, i) ==
    ViewAt(bucket.at + bytes_in_header_k + size * 2 * counter_size_k
               + accumulate(mem, bucket.at + counter_size_k, i),
           ReadU32(mem, bucket.at + counter_size_k * (1 + i)))

\* The i-th step of the iterator of get_bucket_vals: the bytes start after the keys.
get_bucket_vals(mem, bucket, size, i) ==
    ViewAt(bucket.at + bytes_in_header_k + size * 2 * counter_size_k
               + accumulate(mem, bucket.at + counter_size_k, size)
               + accumulate(mem, bucket.at + counter_size_k * (1 + size), i),
           ReadU32(mem, bucket.at + counter_size_k * (1 + size + i)))

bucket_member_t(mem, bucket, size, i) ==
    [idx |-> i, key |-> get_bucket_keys(mem, bucket, size, i),
     value |-> get_bucket_vals(mem, bucket, size, i)]

NoMember == [idx |-> 0, key |-> [present |-> FALSE, at |-> 0, size |-> 0], value |-> MissingView]

\* for_each_in_bucket: the members in the order of the bucket
members_in_order(mem, bucket, size) ==
    Listed([i \in 1..size |-> bucket_member_t(mem, bucket, size, i - 1)], size)

for_each_in_bucket(mem, bucket) ==
    members_in_order(mem, bucket, get_bucket_size(mem, bucket))

\* The last of the members whose key is key_str; a member that is not present if
\* there is none.
last_match(mem, members, key_str) ==
    LET hits == {i \in 1..Len(members) : Slice(mem, members[i].key) = key_str} IN
    IF hits = {} THEN NoMember
    ELSE members[CHOOSE i \in hits : \A j \in hits : j <= i]

find_in_bucket(mem, bucket, key_str) ==
    last_match(mem, for_each_in_bucket(mem, bucket), key_str)

\* The counters and the bytes that the header of the bucket announces lie inside the
\* bucket. The loops over a bucket that is not readable leave its memory, and the
\* memory of the arena soon after: the process is taken to crash there.
within_bucket(mem, bucket, size) ==
    \/ size = 0
    \/ /\ size > 0
       /\ bytes_in_header_k + size * 2 * counter_size_k <= bucket.size
       /\ bytes_in_header_k + size * 2 * counter_size_k
              + accumulate(mem, bucket.at + counter_size_k, 2 * size) <= bucket.size

Readable(mem, bucket) == within_bucket(mem, bucket, get_bucket_size(mem, bucket))
Crashed == "the process crashes"

starts_with(str, prefix) ==
    Len(str) >= Len(prefix) /\ SubSeq(str, 1, Len(prefix)) = prefix

\* ------------------------------------------------------- remove_from_bucket
\* memmove(part.begin(), part.end(), full.size() - part.size()): the count is taken
\* from the sizes, so the move runs past the end of full by the offset of part in it.
\* Writes past the end of the memory are not kept.
remove_part(mem, full, part) ==
    LET moved_length == full.size - part.size IN
    [mem |-> Poke(mem, part.at, Sub(mem, part.at + part.size, moved_length)),
     bucket |-> ViewAt(full.at, full.size - part.size)]

\* The next remove_part of a chain, on the memory and the bucket the last one left.
remove_next(r, part) == remove_part(r.mem, r.bucket, part)

\* The four parts of a member that is present, in the order of the code: its value,
\* its key, the length of its value and the length of its key.
remove_member(mem, bucket, old, old_size) ==
    remove_next(
        remove_next(
            remove_next(remove_part(mem, bucket, old.value), old.key),
            ViewAt(bucket.at + counter_size_k * (old_size + old.idx + 1), counter_size_k)),
        ViewAt(bucket.at + counter_size_k * (old.idx + 1), counter_size_k))

\* The size in the header of the bucket goes down by one.
decrement_size(r, bucket) ==
    [mem |-> Poke(r.mem, bucket.at, U32(ReadU32(r.mem, bucket.at) - 1)), bucket |-> r.bucket]

\* A removal that treats the last member of a bucket as any other.
remove_found_to_header(mem, bucket, old, old_size) ==
    IF ~old.value.present THEN [mem |-> mem, bucket |-> bucket]
    ELSE decrement_size(remove_member(mem, bucket, old, old_size), bucket)

remove_found(mem, bucket, old, old_size) ==
    IF ~old.value.present THEN [mem |-> mem, bucket |-> bucket]
    ELSE IF old_size = 1 THEN [mem |-> mem, bucket |-> MissingView]
    ELSE decrement_size(remove_member(mem, bucket, old, old_size), bucket)

\* A removal that forgets to decrement the size.
remove_from_bucket_keep_size(mem, bucket, key_str) ==
    IF ~find_in_bucket(mem, bucket, key_str).value.present
    THEN [mem |-> mem, bucket |-> bucket]
    ELSE IF get_bucket_size(mem, bucket) = 1 THEN [mem |-> mem, bucket |-> MissingView]
    ELSE remove_member(mem, bucket, find_in_bucket(mem, bucket, key_str),
                       get_bucket_size(mem, bucket))

remove_from_bucket(mem, bucket, key_str) ==
    remove_found(mem, bucket, find_in_bucket(mem, bucket, key_str),
                 get_bucket_size(mem, bucket))

\* --------------------------------------------------------- upsert_in_bucket
\* The loop that copies the old members; st.out is the new memory, st.keys_output
\* and st.vals_output are the offsets where the next key and value go. The lengths
\* of the old member i are stored at the index i of the new counters.
RECURSIVE upsert_copy(_, _, _, _, _, _)
upsert_copy(mem, bucket, old_size, i, skipped, st) ==
    IF i = old_size THEN st
    ELSE IF i = skipped THEN upsert_copy(mem, bucket, old_size, i + 1, skipped, st)
    ELSE LET old_key == get_bucket_keys(mem, bucket, old_size, i)
             old_val == get_bucket_vals(mem, bucket, old_size, i)
             o1 == Poke(st.out, counter_size_k * (1 + i), U32(old_key.size))
             o2 == Poke(o1, counter_size_k * (1 + st.new_size + i), U32(old_val.size))
             o3 == Poke(o2, st.keys_output, Slice(mem, old_key))
             o4 == Poke(o3, st.vals_output, Slice(mem, old_val))
         IN
         upsert_copy(mem, bucket, old_size, i + 1, skipped,
                     [st EXCEPT !.out = o4, !.keys_output = @ + old_key.size,
                                !.vals_output = @ + old_val.size])

\* The new entry goes to the end: its lengths to the last counters of the keys and
\* of the values, its bytes after the bytes that were copied.
upsert_append(st, key, val, new_bytes) ==
    LET o1 == Poke(st.out, counter_size_k * (1 + st.new_size - 1), U32(Len(key)))
        o2 == Poke(o1, counter_size_k * (1 + st.new_size + st.new_size - 1), U32(Len(val)))
        o3 == Poke(o2, st.keys_output, key)
    IN
    [mem |-> Poke(o3, st.vals_output, val), bucket |-> ViewAt(0, new_bytes)]

\* The bucket is rebuilt in new_bytes bytes taken from the arena, whose counters
\* read as g before they are written: the size, the old members but the skipped
\* one, then the new entry.
upsert_rebuild(mem, bucket, key, val, g, old_size, skipped, new_size, new_bytes_for_counters, new_bytes_for_keys, new_bytes) ==
    upsert_append(
        upsert_copy(mem, bucket, old_size, 0, skipped,
            [out |-> Poke(alloc(new_bytes, g), 0, U32(new_size)), new_size |-> new_size,
             keys_output |-> bytes_in_header_k + new_bytes_for_counters,
             vals_output |-> bytes_in_header_k + new_bytes_for_counters + new_bytes_for_keys]),
        key, val, new_bytes)

\* The sizes of the new bucket, from those of the old one and of the member found.
upsert_sized(mem, bucket, key, val, g, old_size, old_bytes_for_keys, old_bytes_for_vals, skipped, new_size, old_key_size, old_value_size) ==
    upsert_rebuild(mem, bucket, key, val, g, old_size, skipped, new_size,
        new_size * 2 * counter_size_k,
        old_bytes_for_keys - old_key_size + Len(key),
        bytes_in_header_k + new_size * 2 * counter_size_k
            + (old_bytes_for_keys - old_key_size + Len(key))
            + (old_bytes_for_vals - old_value_size + Len(val)))

upsert_found(mem, bucket, key, val, g, old_size, old) ==
    upsert_sized(mem, bucket, key, val, g, old_size,
        IF bucket.present THEN accumulate(mem, bucket.at + counter_size_k, old_size) ELSE 0,
        IF bucket.present
        THEN accumulate(mem, bucket.at + counter_size_k * (1 + old_size), old_size) ELSE 0,
        IF ~old.value.present THEN -1 ELSE old.idx,
        old_size + (IF ~old.value.present THEN 1 ELSE 0),
        old.key.size, old.value.size)

\* An upsert that counts one more member whether or not the key was there.
upsert_in_bucket_grow(mem, bucket, key, val, g) ==
    upsert_sized(mem, bucket, key, val, g, get_bucket_size(mem, bucket),
        accumulate(mem, bucket.at + counter_size_k, get_bucket_size(mem, bucket)),
        accumulate(mem, bucket.at + counter_size_k * (1 + get_bucket_size(mem, bucket)),
                   get_bucket_size(mem, bucket)),
        -1, get_bucket_size(mem, bucket) + 1, 0, 0)

\* The result: the new memory and the view of the bucket in it.
upsert_in_bucket(mem, bucket, key, val, g) ==
    upsert_found(mem, bucket, key, val, g, get_bucket_size(mem, bucket),
                 find_in_bucket(mem, bucket, key))

\* ------------------------------------------------------------ valid buckets
MaxMembers == 2                 \* members of the buckets that the calls are given

RECURSIVE Flatten(_)
Flatten(seqs) == IF seqs = <<>> THEN <<>> ELSE Head(seqs) \o Flatten(Tail(seqs))

\* The bytes of the bucket that holds the members ms (each a [key, val]), in order.
bucket_bytes(ms) ==
    Flatten([i \in 1..(1 + 2 * Len(ms)) |->
                IF i = 1 THEN U32(Len(ms))
                ELSE IF i <= 1 + Len(ms) THEN U32(Len(ms[i - 1].key))
                ELSE U32(Len(ms[i - 1 - Len(ms)].val))])
        \o Flatten([i \in 1..Len(ms) |-> ms[i].key])
        \o Flatten([i \in 1..Len(ms) |-> ms[i].val])

\* A bucket of no member is a missing value; the names of a bucket are unique.
MemberLists(n) ==
    {ms \in SeqsUpTo([key : PathNames, val : Values], n) :
        \A i, j \in 1..Len(ms) : ms[i].key = ms[j].key => i = j}
bucket_of(ms) ==
    IF ms = <<>> THEN [mem |-> <<>>, bucket |-> MissingView]
    ELSE [mem |-> bucket_bytes(ms), bucket |-> ViewAt(0, Len(bucket_bytes(ms)))]

\* What a reader of the bucket finds: the members in order, as [key, val].
members_of(mem, bucket) ==
    LET ms == for_each_in_bucket(mem, bucket) IN
    Listed([i \in 1..Len(ms) |->
               [key |-> Slice(mem, ms[i].key), val |-> Slice(mem, ms[i].value)]], Len(ms))
\* What find_in_bucket gives for key_str: the value, or that there is none.
lookup(mem, bucket, key_str) ==
    LET m == find_in_bucket(mem, bucket, key_str) IN
    [present |-> m.value.present, bytes |-> Slice(mem, m.value)]

\* ------------------------------------------------- the calls on one bucket
\* ret holds the bucket in hand (op = "bucket"), or the last call on it: the bucket
\* it was given (before), its arguments and the memory and view that it left.
InHand(ms) ==
    [op |-> "bucket", mem |-> bucket_of(ms).mem, bucket |-> bucket_of(ms).bucket, members |-> ms]

InitBucket ==
    /\ named = {}
    /\ made = [name \in AllNames |-> NotMade]
    /\ pairs = [l \in Located |-> NotFound]
    /\ youngest_sequence = 0
    /\ txns = [t \in Txns |-> NullTxn]
    /\ ret \in {InHand(ms) : ms \in MemberLists(MaxMembers)}
    /\ last_put = [l \in Located |-> NoPut]
    /\ drawn = 0
    /\ hist = [t \in Txns |-> NoHist]
    /\ hash = [str \in Strings |-> 0]
    /\ path_put = [str \in PathNames |-> NoPut]
    /\ mutex = Unlocked
    /\ pc = [th \in Txns |-> Outside]

CallUpsertInBucket(key, val, g) ==
    LET r == upsert_in_bucket(ret.mem, ret.bucket, key, val, g) IN
    /\ ret.op = "bucket"
    /\ ret' = [op |-> "upsert_in_bucket", before |-> ret, key |-> key, val |-> val,
               mem |-> r.mem, bucket |-> r.bucket]
    /\ UNCHANGED <<named, made, pairs, youngest_sequence, txns, last_put, drawn, hist, hash, path_put, mutex, pc>>

CallRemoveFromBucket(key) ==
    LET r == remove_from_bucket(ret.mem, ret.bucket, key) IN
    /\ ret.op = "bucket"
    /\ ret' = [op |-> "remove_from_bucket", before |-> ret, key |-> key, val |-> <<>>,
               mem |-> r.mem, bucket |-> r.bucket]
    /\ UNCHANGED <<named, made, pairs, youngest_sequence, txns, last_put, drawn, hist, hash, path_put, mutex, pc>>

\* The caller keeps the bucket that the call left, when it is a valid one of at
\* most MaxMembers members.
KeepBucket ==
    /\ ret.op \in {"upsert_in_bucket", "remove_from_bucket"}
    /\ members_of(ret.mem, ret.bucket) \in MemberLists(MaxMembers)
    /\ bucket_of(members_of(ret.mem, ret.bucket)).mem = Slice(ret.mem, ret.bucket)
    /\ ret' = InHand(members_of(ret.mem, ret.bucket))
    /\ UNCHANGED <<named, made, pairs, youngest_sequence, txns, last_put, drawn, hist, hash, path_put, mutex, pc>>

NextBucket ==
    \/ \E key \in PathNames, val \in Values, g \in Garbage : CallUpsertInBucket(key, val, g)
    \/ \E key \in PathNames : CallRemoveFromBucket(key)
    \/ KeepBucket

SpecBucket == InitBucket /\ [][NextBucket]_vars

NamesOf(ms) == {ms[i].key : i \in 1..Len(ms)}
PositionOf(ms, key) == CHOOSE i \in 1..Len(ms) : ms[i].key = key
Without(ms, key) == SelectSeq(ms, LAMBDA m : m.key # key)

\* C14: after upsert_in_bucket(B, n, v) a lookup of n in the bucket finds v.
UpsertThenFind ==
    ret.op = "upsert_in_bucket" =>
        lookup(ret.mem, ret.bucket, ret.key) = [present |-> TRUE, bytes |-> ret.val]

\* C15: upsert_in_bucket(B, n, v) leaves a bucket whose stored member count is the
\* one of B plus 1 when n was not a member of B, and the one of B when it was.
UpsertCountsMembers ==
    ret.op = "upsert_in_bucket" =>
        get_bucket_size(ret.mem, ret.bucket) =
            get_bucket_size(ret.before.mem, ret.before.bucket)
                + (IF ret.key \in NamesOf(ret.before.members) THEN 0 ELSE 1)

\* An upsert of the first of two members, and so one that adds no member.
UpsertOfFirstMember ==
    /\ ret.op = "upsert_in_bucket"
    /\ Len(ret.before.members) = 2
    /\ ret.before.members[1].key = ret.key
    /\ ret.before.members[1].val # ret.val
    /\ get_bucket_size(ret.mem, ret.bucket) = 2

\* C16: upsert_in_bucket(B, n, v) leaves the members of B other than n as they were
\* and in their order; a new n comes after them, a member n keeps its place.
UpsertKeepsTheOthers ==
    ret.op = "upsert_in_bucket" =>
        members_of(ret.mem, ret.bucket) =
            IF ret.key \in NamesOf(ret.before.members)
            THEN [ret.before.members EXCEPT
                     ![PositionOf(ret.before.members, ret.key)] = [key |-> ret.key, val |-> ret.val]]
            ELSE Append(ret.before.members, [key |-> ret.key, val |-> ret.val])

\* C17: after remove_from_bucket(B, n) a lookup of n finds nothing, a lookup of any
\* other name finds what it found in B, and the stored member count is the one of B
\* less 1 when n was a member of B, and the one of B when it was not.
RemoveTakesOneMember ==
    ret.op = "remove_from_bucket" =>
        /\ ~lookup(ret.mem, ret.bucket, ret.key).present
        /\ \A n \in PathNames \ {ret.key} :
              lookup(ret.mem, ret.bucket, n) = lookup(ret.before.mem, ret.before.bucket, n)
        /\ members_of(ret.mem, ret.bucket) = Without(ret.before.members, ret.key)
        /\ get_bucket_size(ret.mem, ret.bucket) =
              get_bucket_size(ret.before.mem, ret.before.bucket)
                  - (IF ret.key \in NamesOf(ret.before.members) THEN 1 ELSE 0)

\* A removal of the first of two members that have names and values of different
\* lengths.
RemovalOfFirstMember ==
    /\ ret.op = "remove_from_bucket"
    /\ Len(ret.before.members) = 2
    /\ ret.before.members[1].key = ret.key
    /\ Len(ret.before.members[1].key) # Len(ret.before.members[2].key)
    /\ Len(ret.before.members[1].val) # Len(ret.before.members[2].val)
    /\ members_of(ret.mem, ret.bucket) = <<ret.before.members[2]>>

\* ------------------------------------------------------ the store of buckets
\* The buckets are the values of the main collection, under the hashes of the paths.
ukv_collection_main_k == Unnamed
ukv_length_missing_k == -1      \* the length of a value that is not there

RECURSIVE SortedSeq(_)
SortedSeq(S) ==
    IF S = {} THEN <<>>
    ELSE LET least == CHOOSE x \in S : \A y \in S : x <= y IN
         <<least>> \o SortedSeq(S \ {least})

offset_in_sorted(sorted, key) == CHOOSE i \in 1..Len(sorted) : sorted[i] = key

\* ukv_read of the bucket keys without lengths and presences: the found values one
\* after the other on a tape, and the view of each; a key that is not found has a
\* view of no bytes.
RECURSIVE joined_bins_t(_, _, _, _)
joined_bins_t(p, keys, i, st) ==
    IF i > Len(keys) THEN st
    ELSE LET e == p[<<ukv_collection_main_k, keys[i]>>] IN
         joined_bins_t(p, keys, i + 1,
            IF e.found
            THEN [tape |-> st.tape \o e.data,
                  views |-> Append(st.views, ViewAt(Len(st.tape), Len(e.data)))]
            ELSE [st EXCEPT !.views = Append(@, MissingView)])

\* ukv_write of the updated buckets, in the order of their keys: a view that is
\* present is stored, one that is not deletes the key.
RECURSIVE write_buckets(_, _, _, _)
write_buckets(st, keys, buckets, i) ==
    IF i > Len(keys) THEN st
    ELSE LET l == <<ukv_collection_main_k, keys[i]>>
             next == st.youngest + 1
         IN
         write_buckets(
            [pairs |-> [st.pairs EXCEPT ![l] =
                          IF buckets[i].bucket.present
                          THEN [found |-> TRUE, data |-> Slice(buckets[i].mem, buckets[i].bucket),
                                sequence_number |-> next]
                          ELSE NotFound],
             youngest |-> next],
            keys, buckets, i + 1)

\* ----------------------------------------------------------- ukv_paths_write
\* One task of the loop that updates the buckets. st.tape: the memory of the buckets
\* that were read; st.buckets[idx]: the view of a bucket, and its own memory once an
\* upsert has rebuilt it (own).
paths_write_task(st, unique_col_keys, task, g) ==
    LET bucket_idx == offset_in_sorted(unique_col_keys, hash[task.path])
        b == st.buckets[bucket_idx]
        mem == IF b.own THEN b.mem ELSE st.tape
        up == upsert_in_bucket(mem, b.bucket, task.path, task.val, g)
        rm == remove_from_bucket(mem, b.bucket, task.path)
    IN
    IF st.crashed \/ ~Readable(mem, b.bucket) THEN [st EXCEPT !.crashed = TRUE]
    ELSE IF task.val # NullValue
    THEN [st EXCEPT !.buckets[bucket_idx] = [own |-> TRUE, mem |-> up.mem, bucket |-> up.bucket]]
    ELSE IF b.own
         THEN [st EXCEPT !.buckets[bucket_idx] = [own |-> TRUE, mem |-> rm.mem, bucket |-> rm.bucket]]
         ELSE [st EXCEPT !.tape = rm.mem, !.buckets[bucket_idx].bucket = rm.bucket]

RECURSIVE paths_write_loop(_, _, _, _, _)
paths_write_loop(st, unique_col_keys, tasks, i, g) ==
    IF i > Len(tasks) THEN st
    ELSE paths_write_loop(paths_write_task(st, unique_col_keys, tasks[i], g),
                          unique_col_keys, tasks, i + 1, g)

\* The buckets as they are written back, each with the memory it lies in; no
\* buckets when the loop has crashed.
updated_buckets_from(p, tasks, g) ==
    LET unique_col_keys == SortedSeq({hash[tasks[i].path] : i \in 1..Len(tasks)})
        read == joined_bins_t(p, unique_col_keys, 1, [tape |-> <<>>, views |-> <<>>])
        st == paths_write_loop(
                 [tape |-> read.tape, crashed |-> FALSE,
                  buckets |-> Listed([k \in 1..Len(unique_col_keys) |->
                                        [own |-> FALSE, mem |-> <<>>, bucket |-> read.views[k]]],
                                     Len(unique_col_keys))],
                 unique_col_keys, tasks, 1, g)
    IN
    IF st.crashed THEN <<>> ELSE
    Listed([k \in 1..Len(unique_col_keys) |->
               [mem |-> IF st.buckets[k].own THEN st.buckets[k].mem ELSE st.tape,
                bucket |-> st.buckets[k].bucket]], Len(unique_col_keys))

\* The whole call at once: the buckets are read from the store as it is.
updated_buckets(tasks, g) == updated_buckets_from(pairs, tasks, g)

RECURSIVE PathPut(_, _, _)
PathPut(put, tasks, i) ==
    IF i > Len(tasks) THEN put
    ELSE PathPut([put EXCEPT ![tasks[i].path] =
                    [puts |-> @.puts + 1, value |-> Bytes(tasks[i].val),
                     erased |-> tasks[i].val = NullValue]],
                 tasks, i + 1)

\* tasks: the paths and the values (NullValue: the presence bit is not set) of the
\* main collection. oom: the arena fails, which happens before the write-back.
ukv_paths_write(tasks, g, oom) ==
    LET unique_col_keys == SortedSeq({hash[tasks[i].path] : i \in 1..Len(tasks)})
        updated == updated_buckets(tasks, g)
        done == write_buckets([pairs |-> pairs, youngest |-> youngest_sequence],
                              unique_col_keys, updated, 1)
    IN
    /\ youngest_sequence + Len(unique_col_keys) <= MaxSeq
    /\ IF oom
       THEN /\ ret' = Result("paths_write", 0, "Failed to allocate memory!", <<>>, <<>>)
            /\ UNCHANGED <<pairs, youngest_sequence, drawn, path_put>>
       ELSE IF updated = <<>>
       THEN /\ ret' = Result("paths_write", 0, Crashed, tasks, <<>>)
            /\ UNCHANGED <<pairs, youngest_sequence, drawn, path_put>>
       ELSE /\ pairs' = done.pairs
            /\ youngest_sequence' = done.youngest
            /\ drawn' = IF done.youngest > drawn THEN done.youngest ELSE drawn
            /\ path_put' = PathPut(path_put, tasks, 1)
            /\ ret' = Result("paths_write", 0, NoErr, tasks, <<>>)
    /\ UNCHANGED <<named, made, txns, last_put, hist, hash, mutex, pc>>

\* ------------------------------------------------------------ ukv_paths_read
\* The loop that exports the values: every value that is found is moved to the
\* front of the tape, at exported_volume.
RECURSIVE paths_read_loop(_, _, _, _)
paths_read_loop(st, views, paths, i) ==
    IF i > Len(paths) \/ st.crashed THEN st
    ELSE LET val == find_in_bucket(st.tape, views[i], paths[i]).value IN
         paths_read_loop(
            IF ~Readable(st.tape, views[i]) THEN [st EXCEPT !.crashed = TRUE]
            ELSE IF val.present
            THEN [tape |-> Poke(st.tape, st.exported_volume, Slice(st.tape, val)),
                  exported_volume |-> st.exported_volume + val.size, crashed |-> FALSE,
                  cells |-> Append(st.cells, [presence |-> TRUE, offset |-> st.exported_volume,
                                              length |-> val.size])]
            ELSE [st EXCEPT !.cells = Append(@, [presence |-> FALSE,
                                                 offset |-> st.exported_volume,
                                                 length |-> ukv_length_missing_k])],
            views, paths, i + 1)

\* What the caller finds in row i of the outputs.
PathsView(st) ==
    [i \in 1..Len(st.cells) |->
        [presence |-> st.cells[i].presence,
         length |-> st.cells[i].length,
         bytes |-> IF st.cells[i].presence
                   THEN Sub(st.tape, st.cells[i].offset, st.cells[i].length) ELSE <<>>]]

ukv_paths_read(paths, oom) ==
    LET buckets_keys == [i \in 1..Len(paths) |-> hash[paths[i]]]
        read == joined_bins_t(pairs, buckets_keys, 1, [tape |-> <<>>, views |-> <<>>])
        st == paths_read_loop([tape |-> read.tape, exported_volume |-> 0, cells |-> <<>>,
                               crashed |-> FALSE],
                              read.views, paths, 1)
    IN
    /\ ret' = IF oom THEN Result("paths_read", 0, "Failed to allocate memory!", <<>>, <<>>)
              ELSE IF st.crashed THEN Result("paths_read", 0, Crashed, paths, <<>>)
              ELSE Result("paths_read", 0, NoErr, paths, PathsView(st))
    /\ UNCHANGED <<named, made, pairs, youngest_sequence, txns, last_put, drawn, hist, hash, path_put, mutex, pc>>

\* ------------------------------------------------------------------ ukv_scan
ukv_key_unknown_k == 2147483647     \* the key that asks a scan to begin at the smallest key

\* A scan that begins after min_key.
ukv_scan_after(p, collection, min_key, max_count) ==
    LET from == {k \in Keys : /\ p[<<collection, k>>].found
                              /\ (min_key = ukv_key_unknown_k \/ k > min_key)}
        sorted == SortedSeq(from)
    IN
    SubSeq(sorted, 1, IF Len(sorted) < max_count THEN Len(sorted) ELSE max_count)

\* The keys of the collection that are found, in ascending order, from min_key on
\* (min_key itself included), at most max_count of them.
ukv_scan(p, collection, min_key, max_count) ==
    LET from == {k \in Keys : /\ p[<<collection, k>>].found
                              /\ (min_key = ukv_key_unknown_k \/ k >= min_key)}
        sorted == SortedSeq(from)
    IN
    SubSeq(sorted, 1, IF Len(sorted) < max_count THEN Len(sorted) ELSE max_count)

\* One task of a scan on HEAD. ret.at: the collection, min_key and max_count.
scan_head(handle, min_key, max_count) ==
    LET collection == IF handle = NullHandle THEN Unnamed ELSE handle IN
    /\ ret' = Result("scan", 0, NoErr, <<collection, min_key, max_count>>,
                     ukv_scan(pairs, collection, min_key, max_count))
    /\ UNCHANGED <<named, made, pairs, youngest_sequence, txns, last_put, drawn, hist>>

MaxCount == 2                   \* max_count of a scan or a match
MinKeys == {33, 34, 35, 36}     \* min_key of a scan: below, at and above the keys

\* One caller that makes collections, writes single rows on HEAD and scans.
NextScan ==
    \/ Call(\E name \in Names : ukv_collection_upsert(name, FALSE))
    \/ Call(\E rows \in SeqsUpTo(RowsOf(Keys, Values), 1) :
          _ukv_write_head(rows, FALSE, FALSE))
    \/ Call(\E handle \in Handles, min_key \in MinKeys, max_count \in 0..MaxCount :
          scan_head(handle, min_key, max_count))
    \/ Return

SpecScan == Init /\ [][NextScan]_vars

scan_member(st, key, prefix, max_count) ==
    IF ~starts_with(key, prefix) THEN st
    ELSE IF key = st.previous THEN [st EXCEPT !.has_reached_previous = TRUE]
    ELSE IF ~st.has_reached_previous THEN st
    ELSE IF Len(st.paths) >= max_count THEN st
    ELSE [st EXCEPT !.paths = Append(@, key), !.previous = key]

RECURSIVE scan_members(_, _, _, _, _)
scan_members(st, keys, i, prefix, max_count) ==
    IF i > Len(keys) THEN st
    ELSE scan_members(scan_member(st, keys[i], prefix, max_count), keys, i + 1, prefix, max_count)

\* The names of the members of the buckets that were read, bucket after bucket.
RECURSIVE scanned_keys(_, _, _)
scanned_keys(tape, views, i) ==
    IF i > Len(views) THEN <<>>
    ELSE LET ms == members_of(tape, views[i]) IN
         Listed([j \in 1..Len(ms) |-> ms[j].key], Len(ms)) \o scanned_keys(tape, views, i + 1)
AllReadable(tape, views) == \A i \in 1..Len(views) : Readable(tape, views[i])

\* The while loop. One round scans at most max_count bucket keys from previous_key,
\* stops when it gets at most one, else reads the buckets and passes their members
\* to the callback. A round that changes nothing is followed by the same round:
\* the loop does not end (hangs).
RECURSIVE scan_rounds(_, _, _, _)
scan_rounds(st, collection, prefix, max_count) ==
    IF Len(st.paths) >= max_count THEN st
    ELSE LET previous_key == IF st.previous = <<>> THEN hash[st.previous] ELSE ukv_key_unknown_k
             found_buckets_keys == ukv_scan(pairs, collection, previous_key, max_count)
             read == joined_bins_t(pairs, found_buckets_keys, 1, [tape |-> <<>>, views |-> <<>>])
             after == scan_members(st, scanned_keys(read.tape, read.views, 1), 1, prefix, max_count)
         IN
         IF Len(found_buckets_keys) <= 1 THEN st
         ELSE IF ~AllReadable(read.tape, read.views) THEN [st EXCEPT !.crashed = TRUE]
         ELSE IF after = st THEN [st EXCEPT !.hangs = TRUE]
         ELSE scan_rounds(after, collection, prefix, max_count)

scan_one_collection_one_range(collection, prefix, previous, max_count) ==
    scan_rounds([paths |-> <<>>, previous |-> previous,
                 has_reached_previous |-> previous = <<>>, hangs |-> FALSE, crashed |-> FALSE],
                collection, prefix, max_count)

\* ----------------------------------------------------------- ukv_paths_match
NeverReturns == "the call does not return"

\* A call of one task on the main collection.
ukv_paths_match(prefix, previous, max_count, oom) ==
    LET st == scan_one_collection_one_range(ukv_collection_main_k, prefix, previous, max_count)
        task == [prefix |-> prefix, previous |-> previous, max_count |-> max_count]
    IN
    /\ ret' = IF oom THEN Result("paths_match", 0, "Failed to allocate memory!", <<>>, <<>>)
              ELSE IF st.crashed THEN Result("paths_match", 0, Crashed, task, <<>>)
              ELSE IF st.hangs THEN Result("paths_match", 0, NeverReturns, task, <<>>)
              ELSE Result("paths_match", 0, NoErr, task, st.paths)
    /\ UNCHANGED <<named, made, pairs, youngest_sequence, txns, last_put, drawn, hist, hash, path_put, mutex, pc>>

\* ---------------------------------------------------------------- NextPaths
Prefixes == {<<>>, <<104>>}     \* every path, and the paths that begin with "h"
PathTasks == [path : PathNames, val : TxnValues \cup {NullValue}]

\* Hash functions to the two keys: the first path and the empty string go to the
\* smaller key, and the other two paths collide with the first, with each other, or both.
HashFunctions ==
    {h \in [Strings -> Keys] :
        /\ \A k \in Keys : h[<<104, 97>>] <= k /\ h[<<>>] <= k
        /\ h[<<104, 98>>] <= h[<<108>>]}

InitPaths ==
    /\ named = {}
    /\ made = [name \in AllNames |-> NotMade]
    /\ pairs = [l \in Located |-> NotFound]
    /\ youngest_sequence = 0
    /\ txns = [t \in Txns |-> NullTxn]
    /\ ret = Idle
    /\ last_put = [l \in Located |-> NoPut]
    /\ drawn = 0
    /\ hist = [t \in Txns |-> NoHist]
    /\ hash \in HashFunctions
    /\ path_put = [str \in PathNames |-> NoPut]
    /\ mutex = Unlocked
    /\ pc = [th \in Txns |-> Outside]

NextPaths ==
    \/ /\ ret = Idle
       /\ \E tasks \in SeqsUpTo(PathTasks, MaxBatch) \ {<<>>}, g \in Garbage, oom \in BOOLEAN :
             ukv_paths_write(tasks, g, oom)
    \/ /\ ret = Idle
       /\ \E paths \in SeqsUpTo(PathNames, MaxBatch) \ {<<>>}, oom \in BOOLEAN :
             ukv_paths_read(paths, oom)
    \/ /\ ret = Idle
       /\ \E prefix \in Prefixes, previous \in Strings, max_count \in 1..MaxCount, oom \in BOOLEAN :
             ukv_paths_match(prefix, previous, max_count, oom)
    \/ Return

SpecPaths == InitPaths /\ [][NextPaths]_vars

\* C13: a paths read that succeeds returns, for every path whose latest write gave
\* it a value, that path as present with exactly the bytes of that value.
PathsReadReturnsLastWrite ==
    (ret.op = "paths_read" /\ ret.err = NoErr) =>
        \A i \in 1..Len(ret.at) :
            (path_put[ret.at[i]].puts > 0 /\ ~path_put[ret.at[i]].erased) =>
                /\ ret.out[i].presence
                /\ ret.out[i].bytes = path_put[ret.at[i]].value
                /\ ret.out[i].length = Len(path_put[ret.at[i]].value)

StoredPaths == {str \in PathNames : path_put[str].puts > 0 /\ ~path_put[str].erased}

\* C18: a match of one task without a previous path, whose max_count is at least
\* the number of the stored paths that start with the prefix, returns and gives
\* each of these paths once, and nothing else.
MatchReturnsEveryPath ==
    LET matching == {str \in StoredPaths : starts_with(str, ret.at.prefix)} IN
    (/\ ret.op = "paths_match"
     /\ ret.err # "Failed to allocate memory!"
     /\ ret.at.previous = <<>>
     /\ ret.at.max_count >= Cardinality(matching))
    => /\ ret.err = NoErr
       /\ {ret.out[i] : i \in 1..Len(ret.out)} = matching
       /\ Len(ret.out) = Cardinality(matching)

\* ---------------------------------------------------------- emptied buckets
\* Paths writes of one row, and of two rows whose second row removes a path, with
\* reads of one path between them.
Removals == [path : PathNames, val : {NullValue}]

NextEmptied ==
    \/ /\ ret = Idle
       /\ \E tasks \in Single(PathTasks) \cup (PathTasks \X Removals), g \in Garbage :
             ukv_paths_write(tasks, g, FALSE)
    \/ /\ ret = Idle
       /\ \E paths \in Single(PathNames) : ukv_paths_read(paths, FALSE)
    \/ Return

SpecEmptied == InitPaths /\ [][NextEmptied]_vars

\* The stored bucket of a key, as a reader of the store gets it: its bytes and the
\* view of all of them.
StoredBucket(k) ==
    LET e == pairs[<<ukv_collection_main_k, k>>] IN
    [mem |-> e.data, bucket |-> ViewAt(0, Len(e.data))]
BucketKeys == {k \in Keys : pairs[<<ukv_collection_main_k, k>>].found}

StoredNames(k) ==
    LET ms == members_of(StoredBucket(k).mem, StoredBucket(k).bucket) IN
    Listed([i \in 1..Len(ms) |-> ms[i].key], Len(ms))

\* --------------------------------------------------- paths of repeated bytes
\* The paths "h" and "hh", which share one bucket key; writes and removals of
\* them in batches, and reads.
RepeatingPaths == {<<104>>, <<104, 104>>}
RepeatingTasks == [path : RepeatingPaths, val : {<<1>>, NullValue}]

InitSet ==
    /\ named = {}
    /\ made = [name \in AllNames |-> NotMade]
    /\ pairs = [l \in Located |-> NotFound]
    /\ youngest_sequence = 0
    /\ txns = [t \in Txns |-> NullTxn]
    /\ ret = Idle
    /\ last_put = [l \in Located |-> NoPut]
    /\ drawn = 0
    /\ hist = [t \in Txns |-> NoHist]
    /\ hash = [str \in RepeatingPaths |-> 34]
    /\ path_put = [str \in RepeatingPaths |-> NoPut]
    /\ mutex = Unlocked
    /\ pc = [th \in Txns |-> Outside]

\* The store keeps the sequence numbers below MaxSeq + 1: the runs of this
\* specification are cut there.
NextSet ==
    \/ /\ ret = Idle
       /\ \E tasks \in SeqsUpTo(RepeatingTasks, MaxBatch) \ {<<>>}, g \in Garbage :
             ukv_paths_write(tasks, g, FALSE)
    \/ /\ ret = Idle
       /\ \E paths \in SeqsUpTo(RepeatingPaths, 1) \ {<<>>} : ukv_paths_read(paths, FALSE)
    \/ Return

SpecSet == InitSet /\ [][NextSet]_vars

\* ------------------------------------------------- two paths writes at once
\* Two threads that each write one path that nobody has written or is writing. A
\* call is two steps, as it takes db.mutex twice: ukv_read of the buckets (shared),
\* then the update in the arena of the call and ukv_write (exclusive).
Reading(tasks) == [op |-> "paths_write", tasks |-> tasks, read |-> pairs]
InFlight == {th \in Txns : pc[th].op = "paths_write"}

paths_write_read(th, tasks) ==
    /\ pc[th] = Outside
    /\ youngest_sequence + Cardinality(InFlight) < MaxSeq
    /\ \A i \in 1..Len(tasks) :
          /\ path_put[tasks[i].path].puts = 0
          /\ \A u \in InFlight : pc[u].tasks[1].path # tasks[i].path
    /\ pc' = [pc EXCEPT ![th] = Reading(tasks)]
    /\ UNCHANGED <<named, made, pairs, youngest_sequence, txns, ret, last_put, drawn,
                   hist, hash, path_put, mutex>>

paths_write_back(th, g) ==
    LET tasks == pc[th].tasks
        unique_col_keys == SortedSeq({hash[tasks[i].path] : i \in 1..Len(tasks)})
        updated == updated_buckets_from(pc[th].read, tasks, g)
        done == write_buckets([pairs |-> pairs, youngest |-> youngest_sequence],
                              unique_col_keys, updated, 1)
    IN
    /\ pc[th].op = "paths_write"
    /\ updated # <<>>
    /\ pairs' = done.pairs
    /\ youngest_sequence' = done.youngest
    /\ drawn' = IF done.youngest > drawn THEN done.youngest ELSE drawn
    /\ path_put' = PathPut(path_put, tasks, 1)
    /\ ret' = Result("paths_write", 0, NoErr, tasks, <<>>)
    /\ pc' = [pc EXCEPT ![th] = Outside]
    /\ UNCHANGED <<named, made, txns, last_put, hist, hash, mutex>>

paths_read_beside(th, paths) ==
    /\ pc[th] = Outside
    /\ ukv_paths_read(paths, FALSE)

NextRace ==
    \/ \E th \in Txns, tasks \in Single([path : PathNames, val : TxnValues]) :
          paths_write_read(th, tasks)
    \/ \E th \in Txns, g \in Garbage : paths_write_back(th, g)
    \/ \E th \in Txns, paths \in Single(PathNames) : paths_read_beside(th, paths)

SpecRace == InitPaths /\ [][NextRace]_vars

\* C36: when no paths write is under way, every path that was written is found in
\* the bucket of its key with the value it was given, also when the writes of two
\* paths of one bucket have run at the same time.
BothPathsWritesTakeEffect ==
    (\A th \in Txns : pc[th] = Outside) =>
        \A str \in StoredPaths :
            lookup(StoredBucket(hash[str]).mem, StoredBucket(hash[str]).bucket, str)
                = [present |-> TRUE, bytes |-> path_put[str].value]

\* C32: every stored bucket is a set: no name occurs twice among its members.
StoredBucketIsASet ==
    \A k \in BucketKeys :
        \A i, j \in 1..Len(StoredNames(k)) : StoredNames(k)[i] = StoredNames(k)[j] => i = j

\* C33: a match of one task with a previous path returns only stored paths that
\* start with the prefix, not the previous path, and no path twice.
MatchGoesOnAfterPrevious ==
    (/\ ret.op = "paths_match"
     /\ ret.err = NoErr
     /\ ret.at.previous # <<>>)
    => /\ \A i \in 1..Len(ret.out) :
             /\ ret.out[i] # ret.at.previous
             /\ ret.out[i] \in StoredPaths
             /\ starts_with(ret.out[i], ret.at.prefix)
       /\ \A i, j \in 1..Len(ret.out) : ret.out[i] = ret.out[j] => i = j

\* C34: a match of one task returns: its loop ends when max_count paths are
\* exported or the collection has no more buckets.
MatchReturns ==
    ret.op = "paths_match" => ret.err # NeverReturns

\* ===================================================== table_ref.hpp: columns
CHAR_BIT == 8

\* a & b of two bytes, bit by bit from the least significant one
RECURSIVE BitAnd(_, _, _)
BitAnd(a, b, bits) ==
    IF bits = 0 THEN 0
    ELSE (a % 2) * (b % 2) + 2 * BitAnd(a \div 2, b \div 2, bits - 1)

\* A mask that counts the bits of a byte from the most significant one.
mask_from_the_top(i) == (2 ^ (CHAR_BIT - 1 - (i % CHAR_BIT))) % 256

\* static_cast<ukv_1x8_t>(1 << (i % CHAR_BIT))
mask_bitmap(i) == (2 ^ (i % CHAR_BIT)) % 256

\* column_view_gt::operator[]: the cell of row i (rows are counted from 0; the
\* sequences of the model from 1).
cell_at(column, i) ==
    [valid |-> BitAnd(column.validities[(i \div CHAR_BIT) + 1], mask_bitmap(i), CHAR_BIT) # 0,
     converted |-> BitAnd(column.conversions[(i \div CHAR_BIT) + 1], mask_bitmap(i), CHAR_BIT) # 0,
     collides |-> BitAnd(column.collisions[(i \div CHAR_BIT) + 1], mask_bitmap(i), CHAR_BIT) # 0,
     value |-> column.scalars[i + 1]]

\* --------------------------------------------- a column view over any buffers
MaxBytes == 2                   \* bytes of each bitmap of a column view
ByteSamples == {77, 178}        \* 01001101 and 10110010
ColumnViews ==
    {[op |-> "column", validities |-> v, conversions |-> c, collisions |-> x,
      scalars |-> [i \in 1..(CHAR_BIT * MaxBytes) |-> i - 1], count |-> CHAR_BIT * MaxBytes] :
        v \in [1..MaxBytes -> ByteSamples], c \in [1..MaxBytes -> ByteSamples],
        x \in [1..MaxBytes -> ByteSamples]}

InitColumn ==
    /\ named = {}
    /\ made = [name \in AllNames |-> NotMade]
    /\ pairs = [l \in Located |-> NotFound]
    /\ youngest_sequence = 0
    /\ txns = [t \in Txns |-> NullTxn]
    /\ ret \in ColumnViews
    /\ last_put = [l \in Located |-> NoPut]
    /\ drawn = 0
    /\ hist = [t \in Txns |-> NoHist]
    /\ hash = [str \in Strings |-> 0]
    /\ path_put = [str \in PathNames |-> NoPut]
    /\ mutex = Unlocked
    /\ pc = [th \in Txns |-> Outside]

\* column[i]
CallCellAt(i) ==
    /\ ret.op = "column"
    /\ i < ret.count
    /\ ret' = [op |-> "cell", column |-> ret, i |-> i, cell |-> cell_at(ret, i)]
    /\ UNCHANGED <<named, made, pairs, youngest_sequence, txns, last_put, drawn, hist, hash, path_put, mutex, pc>>

\* The caller goes on with the same column.
KeepColumn ==
    /\ ret.op = "cell"
    /\ ret' = ret.column
    /\ UNCHANGED <<named, made, pairs, youngest_sequence, txns, last_put, drawn, hist, hash, path_put, mutex, pc>>

NextColumn ==
    \/ \E i \in 0..(CHAR_BIT * MaxBytes - 1) : CallCellAt(i)
    \/ KeepColumn

SpecColumn == InitColumn /\ [][NextColumn]_vars

\* Bit i of a bitmap, counted from the least significant bit of each byte.
BitOf(bitmap, i) == (bitmap[(i \div 8) + 1] \div (2 ^ (i % 8))) % 2

\* C23: the valid, converted and collides flags of the cell of row i are bit
\* (i mod 8), counted from the least significant bit, of byte (i div 8) of the
\* validity, the converted and the collided bitmap, whatever the other bits are.
CellFlagsAreTheBitsOfTheRow ==
    ret.op = "cell" =>
        /\ ret.cell.valid = (BitOf(ret.column.validities, ret.i) = 1)
        /\ ret.cell.converted = (BitOf(ret.column.conversions, ret.i) = 1)
        /\ ret.cell.collides = (BitOf(ret.column.collisions, ret.i) = 1)

\* The cell of a row of the second byte whose three flags differ from what the
\* same bit of the first byte would give.
CellOfTheSecondByte ==
    /\ ret.op = "cell"
    /\ ret.i = 9
    /\ ret.cell.valid /\ ~ret.cell.converted /\ ret.cell.collides
    /\ BitOf(ret.column.validities, 1) = 0
    /\ BitOf(ret.column.conversions, 1) = 1
    /\ BitOf(ret.column.collisions, 1) = 0

\* ============================================================ ukv_docs_gather
\* The field of a document, as the extractor finds it. A string is the sequence of
\* its characters; a float is given in halves (85 halves: 42.5).
NoDocument == [kind |-> "absent"]                       \* the key has no document
NoField == [kind |-> "missing"]                         \* {}
Str42 == [kind |-> "string", chars |-> <<52, 50>>]      \* {"age": "42"}
StrX == [kind |-> "string", chars |-> <<120>>]          \* {"age": "x"}
StrMinus7 == [kind |-> "string", chars |-> <<45, 55>>]  \* {"age": "-7"}
Float42_5 == [kind |-> "float", halves |-> 85]          \* {"age": 42.5}
FloatMinus2_5 == [kind |-> "float", halves |-> -5]      \* {"age": -2.5}
Int42 == [kind |-> "integer", value |-> 42]             \* {"age": 42}
Int300 == [kind |-> "integer", value |-> 300]           \* {"age": 300}
Documents == {NoDocument, NoField, Str42, StrX, Float42_5, Int300}

\* The target types: signed integers of 8 and of 32 bits.
IntTypes == {8, 32}
MaxOf(bits) == (2 ^ (bits - 2) - 1) * 2 + 1
MinOf(bits) == (0 - MaxOf(bits)) - 1

\* The value of a sequence of decimal digits; -1 when a character is no digit.
RECURSIVE digits(_, _, _)
digits(chars, i, acc) ==
    IF i > Len(chars) THEN acc
    ELSE IF chars[i] \notin 48..57 THEN -1
    ELSE digits(chars, i + 1, 10 * acc + (chars[i] - 48))

\* A decimal number: an optional minus sign and at least one digit.
parse_decimal(chars) ==
    LET negative == chars # <<>> /\ chars[1] = 45
        rest == IF negative THEN Tail(chars) ELSE chars
    IN
    IF rest = <<>> \/ digits(rest, 1, 0) < 0 THEN [ok |-> FALSE, value |-> 0]
    ELSE [ok |-> TRUE, value |-> IF negative THEN 0 - digits(rest, 1, 0) ELSE digits(rest, 1, 0)]

\* A float that is rounded to the nearest integer, halves away from zero.
round(halves) == IF halves >= 0 THEN (halves + 1) \div 2 ELSE 0 - ((1 - halves) \div 2)

\* A float loses its fraction.
truncate(halves) == IF halves >= 0 THEN halves \div 2 ELSE 0 - ((0 - halves) \div 2)

NoCell == [valid |-> FALSE, converted |-> FALSE, collides |-> FALSE, value |-> 0]
Collision == [valid |-> FALSE, converted |-> FALSE, collides |-> TRUE, value |-> 0]
Exact(v) == [valid |-> TRUE, converted |-> FALSE, collides |-> FALSE, value |-> v]
Converted(v) == [valid |-> TRUE, converted |-> TRUE, collides |-> FALSE, value |-> v]

\* A collision that leaves the cell valid, with the value that did not fit.
in_range_or_valid(v, bits, cell) ==
    IF v >= MinOf(bits) /\ v <= MaxOf(bits) THEN cell
    ELSE [valid |-> TRUE, converted |-> FALSE, collides |-> TRUE, value |-> v]

\* The range check of the target type: a value out of range collides.
in_range(v, bits, cell) ==
    IF v >= MinOf(bits) /\ v <= MaxOf(bits) THEN cell ELSE Collision

\* The row "-> intN" of the conversion table.
convert_to_int(doc, bits) ==
    IF doc.kind \in {"absent", "missing"} THEN NoCell
    ELSE IF doc.kind = "integer" THEN in_range(doc.value, bits, Exact(doc.value))
    ELSE IF doc.kind = "float"
    THEN in_range(truncate(doc.halves), bits, Converted(truncate(doc.halves)))
    ELSE IF parse_decimal(doc.chars).ok
    THEN in_range(parse_decimal(doc.chars).value, bits, Converted(parse_decimal(doc.chars).value))
    ELSE Collision

\* The bit of row i of a bitmap is set; rows are counted from 0.
set_bit(bitmap, i, bit) ==
    IF ~bit \/ (bitmap[(i \div 8) + 1] \div (2 ^ (i % 8))) % 2 = 1 THEN bitmap
    ELSE [bitmap EXCEPT ![(i \div 8) + 1] = @ + 2 ^ (i % 8)]

\* The loop over the documents of one column. The bitmaps and the scalars start
\* as zeros.
RECURSIVE gather_rows(_, _, _, _)
gather_rows(column, docs, bits, i) ==
    IF i > Len(docs) THEN column
    ELSE gather_rows(
            [column EXCEPT
                !.validities = set_bit(@, i - 1, convert_to_int(docs[i], bits).valid),
                !.conversions = set_bit(@, i - 1, convert_to_int(docs[i], bits).converted),
                !.collisions = set_bit(@, i - 1, convert_to_int(docs[i], bits).collides),
                !.scalars[i] = convert_to_int(docs[i], bits).value],
            docs, bits, i + 1)

Zeros(n) == SubSeq(<<0, 0, 0, 0, 0, 0, 0, 0, 0, 0, 0, 0, 0, 0, 0, 0>>, 1, n)

\* One column of the field of docs, as integers of bits bits.
ukv_docs_gather(docs, bits) ==
    /\ ret' = Result("docs_gather", 0, NoErr, <<docs, bits>>,
                     gather_rows([validities |-> Zeros((Len(docs) + 7) \div 8),
                                  conversions |-> Zeros((Len(docs) + 7) \div 8),
                                  collisions |-> Zeros((Len(docs) + 7) \div 8),
                                  scalars |-> Zeros(Len(docs)), count |-> Len(docs)],
                                 docs, bits, 1))
    /\ UNCHANGED <<named, made, pairs, youngest_sequence, txns, last_put, drawn, hist>>

MaxDocs == 4                    \* documents of a layout, after the leading ones
Leading == {<<>>, <<NoDocument, NoField, Int42, StrX, StrMinus7, FloatMinus2_5, Int300>>}

\* The layouts: some documents, that may come after seven leading ones.
NextGather ==
    \/ Call(\E lead \in Leading, docs \in SeqsUpTo(Documents, MaxDocs) \ {<<>>}, bits \in IntTypes :
          ukv_docs_gather(lead \o docs, bits))
    \/ Return

SpecGather == Init /\ [][NextGather]_vars

\* C21: in a gathered column no cell is both valid and collided: a cell that
\* collided is not valid and its scalar is zero, and the cell of a key that has no
\* document has none of the three flags.
NoCellIsValidAndCollided ==
    ret.op = "docs_gather" =>
        \A i \in 1..ret.out.count :
            LET cell == cell_at(ret.out, i - 1) IN
            /\ ~(cell.valid /\ cell.collides)
            /\ cell.collides => (~cell.valid /\ cell.value = 0)
            /\ ret.at[1][i] = NoDocument =>
                  (~cell.valid /\ ~cell.converted /\ ~cell.collides)

\* A column of the second byte of the bitmaps with a cell that collided, after a
\* cell of a key without document and a valid cell.
CollidedCellOfTheSecondByte ==
    /\ ret.op = "docs_gather"
    /\ ret.out.count = 10
    /\ ret.at[1][8] = NoDocument /\ ret.at[1][9] = Str42 /\ ret.at[1][10] = Int300
    /\ ret.at[2] = 8
    /\ cell_at(ret.out, 9).collides

\* C22: as 32-bit integers, the string "42" gives a valid and converted 42, the
\* float 42.5 a valid and converted 42, the string "x" a collision with a zero
\* scalar, and a document without the field a cell without any flag; the four
\* documents in this order give the bitmaps 0011, 0011 and 0100 and the scalars
\* 42, 42, 0, 0.
GatherAgeAsI32 ==
    (ret.op = "docs_gather" /\ ret.at[2] = 32) =>
        /\ \A i \in 1..ret.out.count :
              /\ ret.at[1][i] = Str42 => cell_at(ret.out, i - 1) = Converted(42)
              /\ ret.at[1][i] = Float42_5 => cell_at(ret.out, i - 1) = Converted(42)
              /\ ret.at[1][i] = StrX => cell_at(ret.out, i - 1) = Collision
              /\ ret.at[1][i] = NoField => cell_at(ret.out, i - 1) = NoCell
        /\ ret.at[1] = <<Str42, Float42_5, StrX, NoField>> =>
              /\ ret.out.validities = <<3>>
              /\ ret.out.conversions = <<3>>
              /\ ret.out.collisions = <<4>>
              /\ ret.out.scalars = <<42, 42, 0, 0>>

\* The column of the four documents of the example.
GatheredTheFourDocuments ==
    /\ ret.op = "docs_gather"
    /\ ret.at = <<(<<Str42, Float42_5, StrX, NoField>>), 32>>
    /\ ret.out.scalars = <<42, 42, 0, 0>>

\* ==================================================== entry_was_overwritten
\* sequence_t is a signed integer: the three arguments are drawn from a range
\* around zero, so that transaction_sequence > youngest (a counter that has
\* wrapped) is among the cases.
MaxSample == 2
Sequences == (0 - MaxSample)..MaxSample
SequenceArguments == [op : {"sequences"}, entry_sequence : Sequences, transaction_sequence : Sequences, youngest_sequence : Sequences]

InitOverwritten ==
    /\ named = {}
    /\ made = [name \in AllNames |-> NotMade]
    /\ pairs = [l \in Located |-> NotFound]
    /\ youngest_sequence = 0
    /\ txns = [t \in Txns |-> NullTxn]
    /\ ret \in SequenceArguments
    /\ last_put = [l \in Located |-> NoPut]
    /\ drawn = 0
    /\ hist = [t \in Txns |-> NoHist]
    /\ hash = [str \in Strings |-> 0]
    /\ path_put = [str \in PathNames |-> NoPut]
    /\ mutex = Unlocked
    /\ pc = [th \in Txns |-> Outside]

CallEntryWasOverwritten ==
    /\ ret.op = "sequences"
    /\ ret' = [op |-> "overwritten", of |-> ret,
               out |-> entry_was_overwritten(ret.entry_sequence, ret.transaction_sequence,
                                             ret.youngest_sequence)]
    /\ UNCHANGED <<named, made, pairs, youngest_sequence, txns, last_put, drawn, hist, hash, path_put, mutex, pc>>

NextOverwritten == CallEntryWasOverwritten

SpecOverwritten == InitOverwritten /\ [][NextOverwritten]_vars

\* C26: entry_was_overwritten(e, s, y) is true exactly when e is in the half-open
\* interval (s, y]: when s <= y, iff s < e and e <= y; when s > y, iff e > s or
\* e <= y. An entry whose sequence number is s is not reported as overwritten.
OverwrittenIsHalfOpen ==
    ret.op = "overwritten" =>
        LET e == ret.of.entry_sequence
            s == ret.of.transaction_sequence
            y == ret.of.youngest_sequence
        IN ret.out = (IF s <= y THEN (s < e /\ e <= y) ELSE (e > s \/ e <= y))


\* ------------------------------------------------------ removed collections
\* One transaction that buffers writes of key 34 in the unnamed collection and in
\* the collection "col", while "col" is made and removed. A located_key_t of the
\* write set keeps the collection_t* it was given: after ukv_collection_remove has
\* erased the collection it points to freed memory.
Dangling(txn) ==
    {l \in Located : /\ txn.new_values[l].buffered \/ txn.requested_keys[l].requested
                     /\ l[1] \notin named \cup {Unnamed}}

\* A commit that dereferences a freed collection_t may also end the process.
commit_dangling(t) ==
    /\ txns[t].live
    /\ Dangling(txns[t]) # {}
    /\ ret' = Result("txn_commit", t, Crashed, <<>>, <<>>)
    /\ UNCHANGED <<named, made, pairs, youngest_sequence, txns, last_put, drawn, hist>>

NextRemoved ==
    \/ Call(ukv_collection_upsert("col", FALSE))
    \/ Call(ukv_collection_remove("col"))
    \/ Call(ukv_txn_begin(1, 0))
    \/ Call(\E rows \in Single(RowsOf({34}, {<<1>>})) : _ukv_write_txn(1, rows, FALSE, FALSE))
    \/ Call(ukv_txn_commit(1, "none"))
    \/ Call(commit_dangling(1))
    \/ Return

SpecRemoved == Init /\ [][NextRemoved]_vars

\* C37: every located key that a commit visits, in the read set and in the write
\* set of its transaction, is a key of a collection that exists.
CommitVisitsLiveCollections ==
    [][(ret = Idle /\ ret'.op = "txn_commit") => Dangling(txns[ret'.txn]) = {}]_vars

\* ---------------------------------------------------------- a second commit
\* Thread 1 begins its transaction, with or without a sequence number, buffers
\* writes, commits, and after a commit that has succeeded commits again without a
\* ukv_txn_begin. Transaction 2 and the HEAD writes go on beside it.
Committed == [op |-> "committed", youngest_sequence_number |-> 0]

again_begin ==
    /\ ret = Idle
    /\ pc[1] # Begun
    /\ \E hint \in Hints : ukv_txn_begin(1, hint)
    /\ pc' = [pc EXCEPT ![1] = Begun]
    /\ UNCHANGED <<hash, path_put, mutex>>

again_write ==
    /\ pc[1] = Begun
    /\ Call(\E rows \in Single(RowsOf({34}, {<<1>>})) : _ukv_write_txn(1, rows, FALSE, FALSE))

first_commit ==
    /\ ret = Idle
    /\ pc[1] = Begun
    /\ ukv_txn_commit(1, "none")
    /\ pc' = [pc EXCEPT ![1] = IF ret'.err = NoErr THEN Committed ELSE Outside]
    /\ UNCHANGED <<hash, path_put, mutex>>

second_commit ==
    /\ pc[1] = Committed
    /\ Call(\E oom \in {"none", "reserve"} : ukv_txn_commit(1, oom))

NextAgain ==
    \/ again_begin
    \/ again_write
    \/ first_commit
    \/ second_commit
    \/ Call(\E hint \in Hints : ukv_txn_begin(2, hint))
    \/ Call(\E rows \in Single(RowsOf({34}, {<<2, 3>>})) : _ukv_write_txn(2, rows, FALSE, FALSE))
    \/ Call(ukv_txn_commit(2, "none"))
    \/ Call(\E rows \in Single(RowsOf(Keys, {<<>>})) : _ukv_write_head(rows, FALSE, FALSE))
    \/ Return

SpecAgain == Init /\ [][NextAgain]_vars

\* C38: a commit of a transaction whose last commit has succeeded, with no
\* ukv_txn_begin since, leaves every entry of the store as it is: its value, its
\* sequence number, and whether it is there.
SecondCommitChangesNothing ==
    [][(pc[1] = Committed /\ ret = Idle /\ ret'.op = "txn_commit" /\ ret'.txn = 1)
          => pairs' = pairs]_vars

\* C39: a HEAD write or a commit that succeeds leaves no entry with a smaller
\* sequence number than the entry had before the call.
EntrySequencesNeverDecrease ==
    [][(ret = Idle /\ ret'.op \in {"write_head", "txn_commit"} /\ ret'.err = NoErr)
          => \A l \in Located :
                (pairs[l].found /\ pairs'[l].found)
                    => pairs'[l].sequence_number >= pairs[l].sequence_number]_vars

\* --------------------------------------------------------- _ukv_measure_txn
\* ukv_read in a transaction with c_values = NULL: the loop ends the call at a key
\* of the main store that was overwritten, and fills c_lengths for the others.
measure_txn_fails(p, txn, youngest, tasks, colocated) ==
    \E i \in 1..Len(tasks) :
        LET loc == LocatedAt(tasks, i, colocated) IN
        /\ ~txn.new_values[loc].buffered
        /\ p[loc].found
        /\ entry_was_overwritten(p[loc].sequence_number, txn.sequence_number, youngest)

measure_txn(p, txn, tasks, colocated) ==
    [i \in 1..Len(tasks) |->
        LET loc == LocatedAt(tasks, i, colocated) IN
        [length |-> IF txn.new_values[loc].buffered THEN Len(txn.new_values[loc].value)
                    ELSE IF p[loc].found THEN Len(p[loc].data) ELSE 0]]

_ukv_measure_txn(t, tasks, colocated) ==
    /\ txns[t].live
    /\ ret' = IF measure_txn_fails(pairs, txns[t], youngest_sequence, tasks, colocated)
              THEN Result("measure_txn", t, Overwritten, LocatedOf(tasks, colocated), <<>>)
              ELSE Result("measure_txn", t, NoErr, LocatedOf(tasks, colocated),
                          measure_txn(pairs, txns[t], tasks, colocated))
    /\ UNCHANGED <<named, made, pairs, youngest_sequence, txns, last_put, drawn, hist>>

\* ------------------------------------------------- reads of a buffered key
\* Thread 1 begins its transaction, buffers values of key 34, reads and measures
\* the key in the transaction, and commits; pc[1] holds the value that its last
\* write has buffered. HEAD writes of the key go on beside it.
Buffering(value) == [op |-> "buffered", value |-> value]

inside_begin ==
    /\ ret = Idle
    /\ pc[1] = Outside
    /\ \E hint \in Hints : ukv_txn_begin(1, hint)
    /\ pc' = [pc EXCEPT ![1] = Begun]
    /\ UNCHANGED <<hash, path_put, mutex>>

inside_write ==
    /\ ret = Idle
    /\ pc[1] # Outside
    /\ \E rows \in Single(RowsOf({34}, BufferedValues)), fail \in BOOLEAN :
          /\ _ukv_write_txn(1, rows, FALSE, fail)
          /\ pc' = [pc EXCEPT ![1] = IF ret'.err = NoErr THEN Buffering(rows[1].value) ELSE @]
    /\ UNCHANGED <<hash, path_put, mutex>>

inside_read ==
    /\ pc[1] # Outside
    /\ Call(\E tasks \in Single(TasksOf({34})), consistent \in BOOLEAN, oom \in BOOLEAN :
              _ukv_read_txn(1, tasks, FALSE, consistent, NullArena, oom))

inside_measure ==
    /\ pc[1] # Outside
    /\ Call(\E tasks \in Single(TasksOf({34})) : _ukv_measure_txn(1, tasks, FALSE))

inside_commit ==
    /\ ret = Idle
    /\ pc[1] # Outside
    /\ ukv_txn_commit(1, "none")
    /\ pc' = [pc EXCEPT ![1] = Outside]
    /\ UNCHANGED <<hash, path_put, mutex>>

NextInside ==
    \/ inside_begin
    \/ inside_write
    \/ inside_read
    \/ inside_measure
    \/ inside_commit
    \/ Call(\E rows \in Single(RowsOf({34}, {<<2, 3>>})) : _ukv_write_head(rows, FALSE, FALSE))
    \/ Return

SpecInside == Init /\ [][NextInside]_vars

\* C40: a read, in a transaction, of a key that the transaction has buffered does
\* not end with the error of an overwritten key, and when its arena is allocated
\* it returns the value that was buffered last, with its length; a measure of the
\* key returns that length.
BufferedKeyReadsItsBufferedValue ==
    (ret.txn = 1 /\ pc[1].op = "buffered") =>
        /\ ret.op = "read_txn" =>
              /\ ret.err # Overwritten
              /\ ret.err = NoErr =>
                    /\ ret.out[1].bytes = pc[1].value
                    /\ ret.out[1].length = Len(pc[1].value)
        /\ ret.op = "measure_txn" =>
              /\ ret.err = NoErr
              /\ ret.out[1].length = Len(pc[1].value)

\* A read that returns the buffered byte while the entry of the key in the main
\* store holds two bytes that HEAD has written since the ukv_txn_begin.
ReadsBesideANewerEntry ==
    /\ ret.op = "read_txn" /\ ret.err = NoErr
    /\ pc[1] = Buffering(<<1>>)
    /\ ret.out[1].bytes = <<1>>
    /\ pairs[<<Unnamed, 34>>].found
    /\ pairs[<<Unnamed, 34>>].data = <<2, 3>>
    /\ pairs[<<Unnamed, 34>>].sequence_number > txns[1].sequence_number

====
